---- MODULE Spec2Model ----
(***************************************************************************)
(* A model of the cstore_fdw columnar store: the foreign-data-wrapper      *)
(* layer of cstore_fdw.c (option resolution and validation, COPY, the DDL  *)
(* trigger, the scan callbacks) and the write/read sessions it drives      *)
(* through the API declared in cstore_fdw.h.                               *)
(***************************************************************************)
EXTENDS Integers, Sequences, FiniteSets

(***************************************************************************)
(* Bounds of the model.                                                    *)
(***************************************************************************)
MaxValue == 1
MaxRows == 3
MaxStripeRows == 3
MaxBlockRows == 2
MaxCopyRows == 2
MaxCopyCommands == 1
MaxScaleRows == 1002
MaxPruneValue == 2
MaxPruneRows == 2

(***************************************************************************)
(* Program constants (cstore_fdw.h).                                       *)
(***************************************************************************)
DEFAULT_STRIPE_ROW_COUNT == 150000
DEFAULT_BLOCK_ROW_COUNT == 10000
STRIPE_ROW_COUNT_MINIMUM == 1000
STRIPE_ROW_COUNT_MAXIMUM == 10000000
BLOCK_ROW_COUNT_MINIMUM == 1000
BLOCK_ROW_COUNT_MAXIMUM == 100000

COMPRESSION_TYPE_INVALID == -1
COMPRESSION_NONE == 0
COMPRESSION_PG_LZ == 1
COMPRESSION_LZ4 == 2
COMPRESSION_ENC_LZ4 == 3
COMPRESSION_ENC_NONE == 4
DEFAULT_COMPRESSION_TYPE == COMPRESSION_NONE

VARIABLES
    tupleDescriptor,   \* the table's schema: natts and, per column, whether the type is ordered
    disk,              \* the table's files: dataFile (whether it exists, the stripes it
                       \* holds), footerFile (whether it exists, the TableFooter it holds)
                       \* and footerWriteCount, the number of times the footer was written
    writeState,        \* TableWriteState of the write session
    readState,         \* TableReadState of the read session
    written,           \* the rows the caller passed to CStoreWriteRow, in order
    returned,          \* the rows CStoreReadNextRow handed back since the read session began
    readFinished,      \* CStoreReadNextRow has returned false in this read session
    tableOptions,      \* the option list of the foreign table (a list of DefElem)
    lastCommand,       \* the entry point that ran last, with its arguments
    lastError,         \* the message of the ERROR the last entry point raised, or ""
    calls,             \* the calls the last entry point made, in order
    copyState,         \* CopyIntoCStoreTable between its calls: active, processedRowCount,
                       \* the rows NextCopyFrom has delivered, and the completion tag
    scanState,         \* ForeignScanState: fdw_state set or NULL, and the scan tuple slot
    relationLocks,     \* the locks held on the table's relation: pairs <<backend, lock mode>>
    backends,          \* the backends running commands concurrently, each with its own
                       \* position, write session and read session
    PreviousProcessUtilityHook,
                       \* whether a utility hook was installed when _PG_init saved it
    catalog,           \* the relations of the database by name: relkind, the name of the
                       \* foreign-data wrapper, the option list (that of the table itself
                       \* is tableOptions)
    fileSystem,        \* the names of the files of the other cstore tables that exist
    sampleState        \* CStoreAcquireSampleRows between its calls: the reservoir, the
                       \* counters, and what it returned

coreVars == <<tupleDescriptor, disk, writeState, readState, written, returned, readFinished>>
fdwVars == <<tableOptions, lastCommand, lastError, calls, copyState, scanState>>
lockVars == <<relationLocks, backends>>
hookVars == <<PreviousProcessUtilityHook, catalog, fileSystem>>
utilityVars == <<PreviousProcessUtilityHook, catalog, fileSystem, sampleState>>
vars == <<tupleDescriptor, disk, writeState, readState, written, returned, readFinished,
          tableOptions, lastCommand, lastError, calls, copyState, scanState, relationLocks,
          backends, PreviousProcessUtilityHook, catalog, fileSystem, sampleState>>

(***************************************************************************)
(* Helpers.                                                                *)
(***************************************************************************)
SetMin(S) == CHOOSE x \in S : \A y \in S : x <= y
SetMax(S) == CHOOSE x \in S : \A y \in S : x >= y

Minimum(a, b) == IF a <= b THEN a ELSE b

RECURSIVE SumSeq(_)
SumSeq(s) == IF s = <<>> THEN 0 ELSE Head(s) + SumSeq(Tail(s))

\* the elements of s at the positions where mask is TRUE, in order
RECURSIVE SelectByMask(_, _)
SelectByMask(s, mask) ==
    IF s = <<>> THEN <<>>
    ELSE IF Head(mask) THEN <<Head(s)>> \o SelectByMask(Tail(s), Tail(mask))
    ELSE SelectByMask(Tail(s), Tail(mask))

(***************************************************************************)
(* Data model (cstore_fdw.h).                                              *)
(***************************************************************************)
\* a row as the caller passes it: Datum columnValues[], bool columnNulls[]
RowSet(natts, maxValue) ==
    { r \in [columnValues : [1..natts -> 0..maxValue], columnNulls : [1..natts -> BOOLEAN]] :
        \A c \in 1..natts : r.columnNulls[c] <=> (r.columnValues[c] = 0) }

\* the caller's arrays zeroed but not marked null
NullRowNotNull(natts) ==
    [columnValues |-> [c \in 1..natts |-> 0], columnNulls |-> [c \in 1..natts |-> FALSE]]

\* the caller's arrays as CStoreIterateForeignScan resets them: every column null
NullRow(natts) ==
    [columnValues |-> [c \in 1..natts |-> 0], columnNulls |-> [c \in 1..natts |-> TRUE]]

\* the schemas tables are created with
TupleDescriptorSet ==
    { [natts |-> 1, ordered |-> <<TRUE>>],
      [natts |-> 2, ordered |-> <<TRUE, FALSE>>] }

EmptyTableFooter(blockRowCount) ==
    [stripeMetadataList |-> <<>>, blockRowCount |-> blockRowCount]

EmptyStripeData(columnCount) ==
    [columnCount |-> columnCount, rowCount |-> 0,
     columnDataArray |-> [c \in 1..columnCount |-> <<>>]]

NoStripeData == [columnCount |-> 0, rowCount |-> 0, columnDataArray |-> <<>>]

\* ColumnBlockSkipNode of one block of one column
ColumnBlockSkipNode(blockData, ordered, compressionType) ==
    LET present == { blockData.valueArray[i] :
                        i \in { j \in 1..Len(blockData.existsArray) : blockData.existsArray[j] } }
        hasMinMax == ordered /\ present # {}
    IN  [hasMinMax |-> hasMinMax,
         minimumValue |-> IF hasMinMax THEN SetMin(present) ELSE 0,
         maximumValue |-> IF hasMinMax THEN SetMax(present) ELSE 0,
         rowCount |-> Len(blockData.existsArray),
         valueCompressionType |-> compressionType]

(***************************************************************************)
(* Write session (CStoreBeginWrite, CStoreWriteRow, CStoreEndWrite).       *)
(***************************************************************************)
ClosedWriteState ==
    [open |-> FALSE, tableFooter |-> EmptyTableFooter(0), compressionType |-> COMPRESSION_NONE,
     currentFileOffset |-> 0, hasStripeData |-> FALSE, stripeData |-> NoStripeData,
     stripeMaxRowCount |-> 0, blockRowCount |-> 0]

\* the on-disk size of a stripe: skip list, data (exists and value streams), stripe footer
StripeSkipListLength(stripeData, blockCount) == stripeData.columnCount * blockCount
StripeDataLength(stripeData) == 2 * stripeData.columnCount * stripeData.rowCount
StripeFooterLength(stripeData) == stripeData.columnCount

StripeBlockCount(stripeData) ==
    IF stripeData.columnCount = 0 THEN 0 ELSE Len(stripeData.columnDataArray[1])

\* the stripe as FlushStripe lays it out, with the skip list built from its blocks
FlushedStripe(ws, td) ==
    LET sd == ws.stripeData
        blockCount == StripeBlockCount(sd)
    IN  [columnCount |-> sd.columnCount,
         rowCount |-> sd.rowCount,
         blockCount |-> blockCount,
         skipList |-> [c \in 1..sd.columnCount |->
                          [b \in 1..blockCount |->
                              ColumnBlockSkipNode(sd.columnDataArray[c][b], td.ordered[c],
                                                  ws.compressionType)]],
         columnDataArray |-> sd.columnDataArray]

FlushedStripeMetadata(ws) ==
    [fileOffset |-> ws.currentFileOffset,
     skipListLength |-> StripeSkipListLength(ws.stripeData, StripeBlockCount(ws.stripeData)),
     dataLength |-> StripeDataLength(ws.stripeData),
     footerLength |-> StripeFooterLength(ws.stripeData)]

StripeMetadataSize(m) == m.skipListLength + m.dataLength + m.footerLength

\* the bytes of a stripe whose flush did not complete: none when length is 0
NoPartialStripe == [fileOffset |-> 0, length |-> 0]

\* the stripes of the data file that lie before a file offset: a write at the
\* offset replaces what the file held from there on
StripesBefore(stripes, fileOffset) ==
    SelectSeq(stripes, LAMBDA entry : entry.fileOffset < fileOffset)

\* FlushStripe with the stripe's metadata also serialized to the footer file
FlushStripeWritingFooter(ws, d, td) ==
    LET meta == FlushedStripeMetadata(ws)
        list == Append(ws.tableFooter.stripeMetadataList, meta)
    IN  <<[ws EXCEPT !.tableFooter.stripeMetadataList = list,
                     !.currentFileOffset = @ + StripeMetadataSize(meta),
                     !.hasStripeData = FALSE,
                     !.stripeData = NoStripeData],
          [d EXCEPT !.dataFile.stripes = Append(@, [fileOffset |-> meta.fileOffset,
                                                   stripe |-> FlushedStripe(ws, td)]),
                    !.footerFile = [exists |-> TRUE,
                                    tableFooter |-> [ws.tableFooter EXCEPT
                                                        !.stripeMetadataList = list]],
                    !.footerWriteCount = @ + 1]>>

\* FlushStripe followed by AppendStripeMetadata: the pair <<write state, disk>>
FlushStripe(ws, d, td) ==
    LET meta == FlushedStripeMetadata(ws)
    IN  <<[ws EXCEPT !.tableFooter.stripeMetadataList = Append(@, meta),
                     !.currentFileOffset = @ + StripeMetadataSize(meta),
                     !.hasStripeData = FALSE,
                     !.stripeData = NoStripeData],
          [d EXCEPT !.dataFile.stripes = Append(StripesBefore(@, meta.fileOffset),
                                                [fileOffset |-> meta.fileOffset,
                                                 stripe |-> FlushedStripe(ws, td)]),
                    !.partialStripe = NoPartialStripe]>>

\* AppendRowToStripe putting the row in front of the rows of its block
AppendRowToStripeInFront(stripeData, blockRowCount, row) ==
    LET blockRowIndex == stripeData.rowCount % blockRowCount
        cell(c) == [existsArray |-> <<~row.columnNulls[c]>>,
                    valueArray |-> <<IF row.columnNulls[c] THEN 0 ELSE row.columnValues[c]>>]
        addTo(blocks, c) ==
            IF blockRowIndex = 0
            THEN Append(blocks, cell(c))
            ELSE [blocks EXCEPT ![Len(blocks)] =
                    [existsArray |-> cell(c).existsArray \o @.existsArray,
                     valueArray |-> cell(c).valueArray \o @.valueArray]]
    IN  [stripeData EXCEPT
            !.rowCount = @ + 1,
            !.columnDataArray = [c \in 1..stripeData.columnCount |-> addTo(@[c], c)]]

\* AppendRowToStripe putting one row more than the block row count into a block
AppendRowToStripeOverfull(stripeData, blockRowCount, row) ==
    LET blockRowIndex == stripeData.rowCount % (blockRowCount + 1)
        cell(c) == [existsArray |-> <<~row.columnNulls[c]>>,
                    valueArray |-> <<IF row.columnNulls[c] THEN 0 ELSE row.columnValues[c]>>]
        addTo(blocks, c) ==
            IF blockRowIndex = 0
            THEN Append(blocks, cell(c))
            ELSE [blocks EXCEPT ![Len(blocks)] =
                    [existsArray |-> @.existsArray \o cell(c).existsArray,
                     valueArray |-> @.valueArray \o cell(c).valueArray]]
    IN  [stripeData EXCEPT
            !.rowCount = @ + 1,
            !.columnDataArray = [c \in 1..stripeData.columnCount |-> addTo(@[c], c)]]

\* one row appended to the stripe buffer, column by column
AppendRowToStripe(stripeData, blockRowCount, row) ==
    LET blockRowIndex == stripeData.rowCount % blockRowCount
        cell(c) == [existsArray |-> <<~row.columnNulls[c]>>,
                    valueArray |-> <<IF row.columnNulls[c] THEN 0 ELSE row.columnValues[c]>>]
        addTo(blocks, c) ==
            IF blockRowIndex = 0
            THEN Append(blocks, cell(c))
            ELSE [blocks EXCEPT ![Len(blocks)] =
                    [existsArray |-> @.existsArray \o cell(c).existsArray,
                     valueArray |-> @.valueArray \o cell(c).valueArray]]
    IN  [stripeData EXCEPT
            !.rowCount = @ + 1,
            !.columnDataArray = [c \in 1..stripeData.columnCount |-> addTo(@[c], c)]]

\* CStoreBeginWrite: the pair <<write state, disk>>. A target without a footer
\* file gets a new, empty data file and an empty footer in memory; an existing
\* table is continued after its last stripe.
CStoreBeginWrite(d, compressionType, stripeMaxRowCount, blockRowCount) ==
    LET tableFooter == IF d.footerFile.exists THEN d.footerFile.tableFooter
                       ELSE EmptyTableFooter(blockRowCount)
        list == tableFooter.stripeMetadataList
        lastStripe == list[Len(list)]
    IN  <<[open |-> TRUE,
           tableFooter |-> tableFooter,
           compressionType |-> compressionType,
           currentFileOffset |-> IF list = <<>> THEN 0
                                 ELSE lastStripe.fileOffset + StripeMetadataSize(lastStripe),
           hasStripeData |-> FALSE,
           stripeData |-> NoStripeData,
           stripeMaxRowCount |-> stripeMaxRowCount,
           blockRowCount |-> blockRowCount],
          IF d.footerFile.exists THEN d
          ELSE [d EXCEPT !.dataFile = [exists |-> TRUE, stripes |-> <<>>],
                         !.partialStripe = NoPartialStripe]>>

\* CStoreWriteRow flushing only once the stripe exceeds its limit
CStoreWriteRowLateFlush(ws, d, td, row) ==
    LET stripeData == IF ws.hasStripeData THEN ws.stripeData ELSE EmptyStripeData(td.natts)
        ws1 == [ws EXCEPT !.hasStripeData = TRUE,
                          !.stripeData = AppendRowToStripe(stripeData, ws.blockRowCount, row)]
    IN  IF ws1.stripeData.rowCount > ws1.stripeMaxRowCount
        THEN FlushStripe(ws1, d, td)
        ELSE <<ws1, d>>

\* CStoreWriteRow: the pair <<write state, disk>>
CStoreWriteRow(ws, d, td, row) ==
    LET stripeData == IF ws.hasStripeData THEN ws.stripeData ELSE EmptyStripeData(td.natts)
        ws1 == [ws EXCEPT !.hasStripeData = TRUE,
                          !.stripeData = AppendRowToStripe(stripeData, ws.blockRowCount, row)]
    IN  IF ws1.stripeData.rowCount >= ws1.stripeMaxRowCount
        THEN FlushStripe(ws1, d, td)
        ELSE <<ws1, d>>

\* CStoreWriteFooter: the footer file replaced by the footer in memory
CStoreWriteFooter(d, tableFooter) ==
    [d EXCEPT !.footerFile = [exists |-> TRUE, tableFooter |-> tableFooter],
              !.footerWriteCount = @ + 1]

\* CStoreEndWrite: the pair <<write state, disk>>. The session's parameters stay
\* readable in the closed state.
CStoreEndWrite(ws, d, td) ==
    LET flushed == IF ws.hasStripeData THEN FlushStripe(ws, d, td) ELSE <<ws, d>>
    IN  <<[flushed[1] EXCEPT !.open = FALSE],
          CStoreWriteFooter(flushed[2], flushed[1].tableFooter)>>

(***************************************************************************)
(* Read session (CStoreBeginRead, CStoreReadNextRow, CStoreEndRead).       *)
(***************************************************************************)
ClosedReadState ==
    [open |-> FALSE, tableFooter |-> EmptyTableFooter(0), projectedColumnList |-> <<>>,
     whereClauseList |-> <<>>, hasStripeData |-> FALSE, stripeData |-> NoStripeData,
     readStripeCount |-> 0, stripeReadRowCount |-> 0]

CStoreReadFooter(d) == d.footerFile.tableFooter

CStoreBeginRead(d, projectedColumnList, whereClauseList) ==
    [ClosedReadState EXCEPT !.open = TRUE,
                            !.tableFooter = CStoreReadFooter(d),
                            !.projectedColumnList = projectedColumnList,
                            !.whereClauseList = whereClauseList]

\* the operators of the predicates block pruning understands
SupportedOperators == {"=", "<", "<=", ">", ">="}

\* a value satisfies a predicate (SQL: a null satisfies none)
PredicateHolds(p, isNull, value) ==
    /\ ~isNull
    /\ CASE p.operator = "="  -> value = p.constant
         [] p.operator = "<"  -> value < p.constant
         [] p.operator = "<=" -> value <= p.constant
         [] p.operator = ">"  -> value > p.constant
         [] p.operator = ">=" -> value >= p.constant
         [] p.operator = "<>" -> value # p.constant
         [] OTHER -> FALSE

\* PredicateRefutedBy taking the bound of "<=" and ">=" as exclusive
PredicateRefutedByOffByOne(p, node) ==
    /\ node.hasMinMax
    /\ p.operator \in SupportedOperators
    /\ CASE p.operator = "="  -> p.constant < node.minimumValue \/ p.constant > node.maximumValue
         [] p.operator = "<"  -> node.minimumValue >= p.constant
         [] p.operator = "<=" -> node.minimumValue >= p.constant
         [] p.operator = ">"  -> node.maximumValue <= p.constant
         [] p.operator = ">=" -> node.maximumValue <= p.constant
         [] OTHER -> FALSE

\* the block's statistics prove that no value of the block satisfies the predicate
PredicateRefutedBy(p, node) ==
    /\ node.hasMinMax
    /\ p.operator \in SupportedOperators
    /\ CASE p.operator = "="  -> p.constant < node.minimumValue \/ p.constant > node.maximumValue
         [] p.operator = "<"  -> node.minimumValue >= p.constant
         [] p.operator = "<=" -> node.minimumValue > p.constant
         [] p.operator = ">"  -> node.maximumValue <= p.constant
         [] p.operator = ">=" -> node.maximumValue < p.constant
         [] OTHER -> FALSE

\* mask[b]: block b survives pruning for every predicate
SelectedBlockMask(skipList, whereClauseList, blockCount) ==
    [b \in 1..blockCount |->
        \A i \in 1..Len(whereClauseList) :
            ~PredicateRefutedBy(whereClauseList[i], skipList[whereClauseList[i].column][b])]

StripeAt(d, fileOffset) ==
    CHOOSE i \in 1..Len(d.dataFile.stripes) : d.dataFile.stripes[i].fileOffset = fileOffset

\* the stripe a StripeMetadata locates, with the selected blocks of the projected columns
LoadFilteredStripe(d, stripeMetadata, projectedColumnList, whereClauseList) ==
    LET stripe == d.dataFile.stripes[StripeAt(d, stripeMetadata.fileOffset)].stripe
        mask == SelectedBlockMask(stripe.skipList, whereClauseList, stripe.blockCount)
        projected == { projectedColumnList[i] : i \in 1..Len(projectedColumnList) }
        rowCounts == [b \in 1..stripe.blockCount |-> stripe.skipList[1][b].rowCount]
    IN  [columnCount |-> stripe.columnCount,
         rowCount |-> SumSeq(SelectByMask(rowCounts, mask)),
         columnDataArray |->
            [c \in 1..stripe.columnCount |->
                IF c \in projected THEN SelectByMask(stripe.columnDataArray[c], mask)
                ELSE <<>>]]

\* the loop of CStoreReadNextRow that materializes the next stripe holding a row
RECURSIVE LoadNextStripe(_, _)
LoadNextStripe(rs, d) ==
    IF rs.hasStripeData \/ rs.readStripeCount >= Len(rs.tableFooter.stripeMetadataList)
    THEN rs
    ELSE LET stripeData == LoadFilteredStripe(
                               d, rs.tableFooter.stripeMetadataList[rs.readStripeCount + 1],
                               rs.projectedColumnList, rs.whereClauseList)
         IN  LoadNextStripe([rs EXCEPT !.readStripeCount = @ + 1,
                                       !.stripeReadRowCount = 0,
                                       !.hasStripeData = stripeData.rowCount # 0,
                                       !.stripeData = IF stripeData.rowCount # 0
                                                      THEN stripeData ELSE NoStripeData],
                            d)

\* CStoreReadNextRow keeping the decoded stripe after its last row
CStoreReadNextRowKeepingStripe(rs, d, row) ==
    LET rs1 == LoadNextStripe(rs, d)
        sd == rs1.stripeData
        blockRowCount == rs1.tableFooter.blockRowCount
        blockIndex == (rs1.stripeReadRowCount \div blockRowCount) + 1
        blockRowIndex == (rs1.stripeReadRowCount % blockRowCount) + 1
        projected == { rs1.projectedColumnList[i] : i \in 1..Len(rs1.projectedColumnList) }
        exists(c) == sd.columnDataArray[c][blockIndex].existsArray[blockRowIndex]
        value(c) == sd.columnDataArray[c][blockIndex].valueArray[blockRowIndex]
        last == rs1.stripeReadRowCount + 1 = sd.rowCount
    IN  IF ~rs1.hasStripeData
        THEN [readState |-> rs1, found |-> FALSE, row |-> row]
        ELSE [readState |-> [rs1 EXCEPT !.stripeReadRowCount = @ + 1,
                                        !.hasStripeData = ~last,
                                        !.stripeData = @],
              found |-> TRUE,
              row |-> [columnValues |->
                          [c \in DOMAIN row.columnValues |->
                              IF c \in projected /\ exists(c) THEN value(c)
                              ELSE row.columnValues[c]],
                       columnNulls |->
                          [c \in DOMAIN row.columnNulls |->
                              IF c \in projected THEN ~exists(c)
                              ELSE row.columnNulls[c]]]]

\* CStoreReadNextRow: the read state after the call, whether a row was found, and
\* the caller's arrays as the call leaves them
CStoreReadNextRow(rs, d, row) ==
    LET rs1 == LoadNextStripe(rs, d)
        sd == rs1.stripeData
        blockRowCount == rs1.tableFooter.blockRowCount
        blockIndex == (rs1.stripeReadRowCount \div blockRowCount) + 1
        blockRowIndex == (rs1.stripeReadRowCount % blockRowCount) + 1
        projected == { rs1.projectedColumnList[i] : i \in 1..Len(rs1.projectedColumnList) }
        exists(c) == sd.columnDataArray[c][blockIndex].existsArray[blockRowIndex]
        value(c) == sd.columnDataArray[c][blockIndex].valueArray[blockRowIndex]
        last == rs1.stripeReadRowCount + 1 = sd.rowCount
    IN  IF ~rs1.hasStripeData
        THEN [readState |-> rs1, found |-> FALSE, row |-> row]
        ELSE [readState |-> [rs1 EXCEPT !.stripeReadRowCount = @ + 1,
                                        !.hasStripeData = ~last,
                                        !.stripeData = IF last THEN NoStripeData ELSE @],
              found |-> TRUE,
              row |-> [columnValues |->
                          [c \in DOMAIN row.columnValues |->
                              IF c \in projected /\ exists(c) THEN value(c)
                              ELSE row.columnValues[c]],
                       columnNulls |->
                          [c \in DOMAIN row.columnNulls |->
                              IF c \in projected THEN ~exists(c)
                              ELSE row.columnNulls[c]]]]

CStoreEndRead(rs) == ClosedReadState

(***************************************************************************)
(* The write/read API driven directly by a caller.                         *)
(***************************************************************************)
AllColumns(td) == [c \in 1..td.natts |-> c]

NoFiles ==
    [dataFile |-> [exists |-> FALSE, stripes |-> <<>>],
     footerFile |-> [exists |-> FALSE, tableFooter |-> EmptyTableFooter(0)],
     footerWriteCount |-> 0,
     partialStripe |-> NoPartialStripe]

NoCommand == [name |-> "", args |-> <<>>]
NoCopy ==
    [active |-> FALSE, processedRowCount |-> 0, copyCount |-> 0, delivered |-> <<>>,
     completionTag |-> <<>>]
NoScan(natts) ==
    [begun |-> FALSE, fdw_state |-> FALSE, columnList |-> <<>>, whereClauseList |-> <<>>,
     tts_isempty |-> TRUE, tuple |-> NullRow(natts)]

CSTORE_FOOTER_FILE_SUFFIX == <<".", "f", "o", "o", "t", "e", "r">>

\* the name of the footer file of the table whose data file is filename
FooterFilenameOf(filename) == filename \o CSTORE_FOOTER_FILE_SUFFIX

CSTORE_FDW_NAME == "cstore_fdw"
RELKIND_FOREIGN_TABLE == "f"
RELKIND_RELATION == "r"
InvalidOid == "InvalidOid"

\* the relations of the database: the table itself, two more cstore tables,
\* a foreign table of another wrapper and an ordinary table
CSTORE_TABLE == "cstore_table"
Catalog ==
    [relation \in {CSTORE_TABLE, "cstore_a", "cstore_b", "file_table", "heap_table"} |->
        CASE relation = CSTORE_TABLE ->
                [relkind |-> RELKIND_FOREIGN_TABLE, fdwname |-> CSTORE_FDW_NAME,
                 options |-> <<>>]
          [] relation = "cstore_a" ->
                [relkind |-> RELKIND_FOREIGN_TABLE, fdwname |-> CSTORE_FDW_NAME,
                 options |-> <<[defname |-> "filename", arg |-> <<"/", "a">>]>>]
          [] relation = "cstore_b" ->
                [relkind |-> RELKIND_FOREIGN_TABLE, fdwname |-> CSTORE_FDW_NAME,
                 options |-> <<[defname |-> "filename", arg |-> <<"/", "b">>]>>]
          [] relation = "file_table" ->
                [relkind |-> RELKIND_FOREIGN_TABLE, fdwname |-> "file_fdw",
                 options |-> <<[defname |-> "filename", arg |-> <<"/", "f">>]>>]
          [] OTHER ->
                [relkind |-> RELKIND_RELATION, fdwname |-> "", options |-> <<>>]]

\* the files of the other tables: a data file and a footer file for each
\* cstore table, the file the other wrapper reads
CatalogFiles ==
    {<<"/", "a">>, FooterFilenameOf(<<"/", "a">>), <<"/", "b">>, FooterFilenameOf(<<"/", "b">>),
     <<"/", "f">>}

NoSample ==
    [active |-> FALSE, targetRowCount |-> 0, sampleRows |-> <<>>, sampleRowCount |-> 0,
     rowCount |-> 0, rowCountToSkip |-> -1, sampleCount |-> 0, returned |-> FALSE,
     result |-> 0, totalRowCount |-> 0, totalDeadRowCount |-> 0]

InitTable ==
    /\ tupleDescriptor \in TupleDescriptorSet
    /\ disk = NoFiles
    /\ writeState = ClosedWriteState
    /\ readState = ClosedReadState
    /\ written = <<>>
    /\ returned = <<>>
    /\ readFinished = FALSE
    /\ lastCommand = NoCommand
    /\ lastError = ""
    /\ calls = <<>>
    /\ copyState = NoCopy
    /\ scanState = NoScan(tupleDescriptor.natts)
    /\ relationLocks = {}
    /\ backends = <<>>

InitCore ==
    /\ InitTable
    /\ PreviousProcessUtilityHook = FALSE
    /\ catalog = Catalog
    /\ fileSystem = CatalogFiles
    /\ sampleState = NoSample

Init ==
    /\ InitCore
    /\ tableOptions = <<>>

BeginWrite(compressionType, stripeMaxRowCount, blockRowCount) ==
    /\ ~writeState.open
    /\ ~readState.open
    /\ ~disk.footerFile.exists
    /\ LET begun == CStoreBeginWrite(disk, compressionType, stripeMaxRowCount, blockRowCount)
       IN  /\ writeState' = begun[1]
           /\ disk' = begun[2]
    /\ written' = <<>>
    /\ UNCHANGED lockVars
    /\ UNCHANGED utilityVars
    /\ UNCHANGED <<tupleDescriptor, readState, returned, readFinished, fdwVars>>

WriteRow(row, maxRows) ==
    /\ writeState.open
    /\ Len(written) < maxRows
    /\ LET wrote == CStoreWriteRow(writeState, disk, tupleDescriptor, row)
       IN  /\ writeState' = wrote[1]
           /\ disk' = wrote[2]
    /\ written' = Append(written, row)
    /\ UNCHANGED lockVars
    /\ UNCHANGED utilityVars
    /\ UNCHANGED <<tupleDescriptor, readState, returned, readFinished, fdwVars>>

EndWrite ==
    /\ writeState.open
    /\ LET ended == CStoreEndWrite(writeState, disk, tupleDescriptor)
       IN  /\ writeState' = ended[1]
           /\ disk' = ended[2]
    /\ UNCHANGED lockVars
    /\ UNCHANGED utilityVars
    /\ UNCHANGED <<tupleDescriptor, readState, written, returned, readFinished, fdwVars>>

BeginRead(projectedColumnList, whereClauseList) ==
    /\ ~writeState.open
    /\ ~readState.open
    /\ disk.footerFile.exists
    /\ readState' = CStoreBeginRead(disk, projectedColumnList, whereClauseList)
    /\ returned' = <<>>
    /\ readFinished' = FALSE
    /\ UNCHANGED lockVars
    /\ UNCHANGED utilityVars
    /\ UNCHANGED <<tupleDescriptor, disk, writeState, written, fdwVars>>

ReadNextRow ==
    /\ readState.open
    /\ LET read == CStoreReadNextRow(readState, disk, NullRow(tupleDescriptor.natts))
       IN  /\ readState' = read.readState
           /\ returned' = IF read.found THEN Append(returned, read.row) ELSE returned
           /\ readFinished' = ~read.found
    /\ UNCHANGED lockVars
    /\ UNCHANGED utilityVars
    /\ UNCHANGED <<tupleDescriptor, disk, writeState, written, fdwVars>>

EndRead ==
    /\ readState.open
    /\ readState' = CStoreEndRead(readState)
    /\ UNCHANGED lockVars
    /\ UNCHANGED utilityVars
    /\ UNCHANGED <<tupleDescriptor, disk, writeState, written, returned, readFinished, fdwVars>>

Next ==
    \/ \E s \in 1..MaxStripeRows, b \in 1..MaxBlockRows : BeginWrite(COMPRESSION_NONE, s, b)
    \/ \E row \in RowSet(tupleDescriptor.natts, MaxValue) : WriteRow(row, MaxRows)
    \/ EndWrite
    \/ BeginRead(AllColumns(tupleDescriptor), <<>>)
    \/ ReadNextRow
    \/ EndRead

Spec == Init /\ [][Next]_vars

(***************************************************************************)
(* Strings and option values (cstore_fdw.c, cstore_fdw.h).                 *)
(***************************************************************************)
NAMEDATALEN == 64
INT32_MAX == 2147483647
INT32_MIN == -INT32_MAX - 1

\* a char pointer: NULL or a string, the string being a sequence of characters
NULLPTR == [isNull |-> TRUE, data |-> <<>>]
CString(chars) == [isNull |-> FALSE, data |-> chars]

OPTION_NAME_FILENAME == "filename"
OPTION_NAME_COMPRESSION_TYPE == "compression"
OPTION_NAME_STRIPE_ROW_COUNT == "stripe_row_count"
OPTION_NAME_BLOCK_ROW_COUNT == "block_row_count"

COMPRESSION_STRING_NONE == <<"n", "o", "n", "e">>
COMPRESSION_STRING_PG_LZ == <<"p", "g", "l", "z">>
COMPRESSION_STRING_LZ4 == <<"l", "z", "4">>
COMPRESSION_STRING_ENC_LZ4 == <<"e", "n", "c", "_", "l", "z", "4">>

\* strncmp(a, b, n) == 0
StrNEqual(a, b, n) == SubSeq(a, 1, Minimum(n, Len(a))) = SubSeq(b, 1, Minimum(n, Len(b)))

DigitChars == <<"0", "1", "2", "3", "4", "5", "6", "7", "8", "9">>
IsDigit(ch) == \E d \in 0..9 : DigitChars[d + 1] = ch
DigitValue(ch) == CHOOSE d \in 0..9 : DigitChars[d + 1] = ch

\* the decimal text of an integer, as an option value is typed
RECURSIVE NatText(_)
NatText(n) ==
    IF n < 10 THEN <<DigitChars[n + 1]>>
    ELSE NatText(n \div 10) \o <<DigitChars[(n % 10) + 1]>>
IntText(n) == IF n < 0 THEN <<"-">> \o NatText(-n) ELSE NatText(n)

RECURSIVE SkipSpaces(_)
SkipSpaces(chars) ==
    IF chars # <<>> /\ Head(chars) = " " THEN SkipSpaces(Tail(chars)) ELSE chars

\* the digits strtol consumes: their number, what follows them, and their value as
\* far as 32 bits hold it (over: 0 the value fits, 1 it is INT32_MAX + 1, 2 it is more)
RECURSIVE ParseDigits(_, _, _, _)
ParseDigits(chars, value, over, count) ==
    IF chars # <<>> /\ IsDigit(Head(chars))
    THEN LET d == DigitValue(Head(chars))
             fits == over = 0 /\ (value < INT32_MAX \div 10
                                  \/ (value = INT32_MAX \div 10 /\ d <= INT32_MAX % 10))
             atLimit == over = 0 /\ value = INT32_MAX \div 10 /\ d = (INT32_MAX % 10) + 1
         IN  ParseDigits(Tail(chars), IF fits THEN value * 10 + d ELSE 0,
                         IF fits THEN 0 ELSE IF atLimit THEN 1 ELSE 2, count + 1)
    ELSE [negative |-> FALSE, value |-> value, over |-> over, count |-> count, rest |-> chars]

\* strtol after the leading white space: an optional sign, then digits
ParseSigned(t) ==
    IF t # <<>> /\ Head(t) = "-" THEN [ParseDigits(Tail(t), 0, 0, 0) EXCEPT !.negative = TRUE]
    ELSE IF t # <<>> /\ Head(t) = "+" THEN ParseDigits(Tail(t), 0, 0, 0)
    ELSE ParseDigits(t, 0, 0, 0)

\* pg_atoi's checks on what strtol returned
CheckedInteger(chars, digits) ==
    IF chars = <<>> \/ digits.count = 0
    THEN [ok |-> FALSE, value |-> 0, error |-> "invalid input syntax for integer"]
    ELSE IF digits.over = 2 \/ (digits.over = 1 /\ ~digits.negative)
    THEN [ok |-> FALSE, value |-> 0, error |-> "value out of range for type integer"]
    ELSE IF SkipSpaces(digits.rest) # <<>>
    THEN [ok |-> FALSE, value |-> 0, error |-> "invalid input syntax for integer"]
    ELSE [ok |-> TRUE,
          value |-> IF digits.over = 1 THEN INT32_MIN
                    ELSE IF digits.negative THEN -digits.value ELSE digits.value,
          error |-> ""]

\* pg_atoi(s, sizeof(int32), 0): the value, or the error it raises
pg_atoi(chars) == CheckedInteger(chars, ParseSigned(SkipSpaces(chars)))

\* ParseCompressionType accepting an unknown name as no compression
ParseCompressionTypeLenient(chars) ==
    IF StrNEqual(chars, COMPRESSION_STRING_PG_LZ, NAMEDATALEN) THEN COMPRESSION_PG_LZ
    ELSE IF StrNEqual(chars, COMPRESSION_STRING_LZ4, NAMEDATALEN) THEN COMPRESSION_LZ4
    ELSE IF StrNEqual(chars, COMPRESSION_STRING_ENC_LZ4, NAMEDATALEN) THEN COMPRESSION_ENC_LZ4
    ELSE COMPRESSION_NONE

ParseCompressionType(chars) ==
    IF StrNEqual(chars, COMPRESSION_STRING_NONE, NAMEDATALEN) THEN COMPRESSION_NONE
    ELSE IF StrNEqual(chars, COMPRESSION_STRING_PG_LZ, NAMEDATALEN) THEN COMPRESSION_PG_LZ
    ELSE IF StrNEqual(chars, COMPRESSION_STRING_LZ4, NAMEDATALEN) THEN COMPRESSION_LZ4
    ELSE IF StrNEqual(chars, COMPRESSION_STRING_ENC_LZ4, NAMEDATALEN) THEN COMPRESSION_ENC_LZ4
    ELSE COMPRESSION_TYPE_INVALID

\* the range check of a row count taking the lower limit as exclusive
RowCountErrorExclusive(parsed, minimum, maximum, message) ==
    IF ~parsed.ok THEN parsed.error
    ELSE IF parsed.value <= minimum \/ parsed.value > maximum THEN message
    ELSE ""

\* the range check of a row count with the lower limit at one row
RowCountErrorFromOne(parsed, minimum, maximum, message) ==
    IF ~parsed.ok THEN parsed.error
    ELSE IF parsed.value < 1 \/ parsed.value > maximum THEN message
    ELSE ""

\* the check of a row count that is given: pg_atoi's error, or the range error
RowCountError(parsed, minimum, maximum, message) ==
    IF ~parsed.ok THEN parsed.error
    ELSE IF parsed.value < minimum \/ parsed.value > maximum THEN message
    ELSE ""

\* the first error in the order the checks are made
FirstError(errors) ==
    IF \A i \in 1..Len(errors) : errors[i] = "" THEN ""
    ELSE errors[SetMin({ i \in 1..Len(errors) : errors[i] # "" })]

\* ValidateForeignTableOptions: the message of the error it raises, or ""
ValidateForeignTableOptions(filename, compressionTypeString, stripeRowCountString, blockRowCountString) ==
    FirstError(<<
        IF ~compressionTypeString.isNull
           /\ ParseCompressionType(compressionTypeString.data) = COMPRESSION_TYPE_INVALID
        THEN "invalid compression type" ELSE "",
        IF stripeRowCountString.isNull THEN ""
        ELSE RowCountError(pg_atoi(stripeRowCountString.data), STRIPE_ROW_COUNT_MINIMUM,
                           STRIPE_ROW_COUNT_MAXIMUM, "invalid stripe row count"),
        IF blockRowCountString.isNull THEN ""
        ELSE RowCountError(pg_atoi(blockRowCountString.data), BLOCK_ROW_COUNT_MINIMUM,
                           BLOCK_ROW_COUNT_MAXIMUM, "invalid block row count") >>)

\* CStoreGetOptionValue: the value of the first option of that name, or NULL
\* (the foreign server carries no options)
CStoreGetOptionValue(optionList, optionName) ==
    LET found == { i \in 1..Len(optionList) : optionList[i].defname = optionName }
    IN  IF found = {} THEN NULLPTR ELSE CString(optionList[SetMin(found)].arg)

\* CStoreDefaultFilePath: $PGDATA/cstore_fdw/{databaseOid}/{relfilenode}
CStoreDefaultFilePath == <<"$PGDATA", "/", "cstore_fdw", "/", "databaseOid", "/", "relfilenode">>

\* CStoreGetOptions without the call of ValidateForeignTableOptions
CStoreGetOptionsWithoutValidation(optionList) ==
    LET filename == CStoreGetOptionValue(optionList, OPTION_NAME_FILENAME)
        compressionTypeString == CStoreGetOptionValue(optionList, OPTION_NAME_COMPRESSION_TYPE)
        stripeRowCountString == CStoreGetOptionValue(optionList, OPTION_NAME_STRIPE_ROW_COUNT)
        blockRowCountString == CStoreGetOptionValue(optionList, OPTION_NAME_BLOCK_ROW_COUNT)
        error == ValidateForeignTableOptions(filename, compressionTypeString,
                                             stripeRowCountString, blockRowCountString)
    IN  [error |-> "",
         filename |-> IF filename.isNull THEN CStoreDefaultFilePath ELSE filename.data,
         compressionType |-> IF compressionTypeString.isNull THEN DEFAULT_COMPRESSION_TYPE
                             ELSE ParseCompressionType(compressionTypeString.data),
         stripeRowCount |-> IF stripeRowCountString.isNull THEN DEFAULT_STRIPE_ROW_COUNT
                            ELSE pg_atoi(stripeRowCountString.data).value,
         blockRowCount |-> IF blockRowCountString.isNull THEN DEFAULT_BLOCK_ROW_COUNT
                           ELSE pg_atoi(blockRowCountString.data).value]

\* CStoreGetOptions: the error it raises ("" for none) and the CStoreFdwOptions
CStoreGetOptions(optionList) ==
    LET filename == CStoreGetOptionValue(optionList, OPTION_NAME_FILENAME)
        compressionTypeString == CStoreGetOptionValue(optionList, OPTION_NAME_COMPRESSION_TYPE)
        stripeRowCountString == CStoreGetOptionValue(optionList, OPTION_NAME_STRIPE_ROW_COUNT)
        blockRowCountString == CStoreGetOptionValue(optionList, OPTION_NAME_BLOCK_ROW_COUNT)
        error == ValidateForeignTableOptions(filename, compressionTypeString,
                                             stripeRowCountString, blockRowCountString)
    IN  [error |-> error,
         filename |-> IF filename.isNull THEN CStoreDefaultFilePath ELSE filename.data,
         compressionType |-> IF compressionTypeString.isNull THEN DEFAULT_COMPRESSION_TYPE
                             ELSE ParseCompressionType(compressionTypeString.data),
         stripeRowCount |-> IF stripeRowCountString.isNull THEN DEFAULT_STRIPE_ROW_COUNT
                            ELSE pg_atoi(stripeRowCountString.data).value,
         blockRowCount |-> IF blockRowCountString.isNull THEN DEFAULT_BLOCK_ROW_COUNT
                           ELSE pg_atoi(blockRowCountString.data).value]

\* the option list of a table given these option values (NULL: not given)
OptionList(compression, stripeRowCount, blockRowCount) ==
    (IF compression.isNull THEN <<>>
     ELSE <<[defname |-> OPTION_NAME_COMPRESSION_TYPE, arg |-> compression.data]>>)
    \o (IF stripeRowCount.isNull THEN <<>>
        ELSE <<[defname |-> OPTION_NAME_STRIPE_ROW_COUNT, arg |-> stripeRowCount.data]>>)
    \o (IF blockRowCount.isNull THEN <<>>
        ELSE <<[defname |-> OPTION_NAME_BLOCK_ROW_COUNT, arg |-> blockRowCount.data]>>)

\* the numbers option values are typed from, and values that are no numbers
StripeRowCountNumbers ==
    {-1, 1, STRIPE_ROW_COUNT_MINIMUM - 1, STRIPE_ROW_COUNT_MINIMUM, STRIPE_ROW_COUNT_MAXIMUM,
     STRIPE_ROW_COUNT_MAXIMUM + 1}
BlockRowCountNumbers ==
    {0, 1, BLOCK_ROW_COUNT_MINIMUM - 1, BLOCK_ROW_COUNT_MINIMUM, BLOCK_ROW_COUNT_MAXIMUM,
     BLOCK_ROW_COUNT_MAXIMUM + 1}
NonNumbers ==
    { <<>>, <<"1", "0", "0", "0", "x">>,
      \* 2^31, and 2^32 + 1000
      <<"2", "1", "4", "7", "4", "8", "3", "6", "4", "8">>,
      <<"4", "2", "9", "4", "9", "6", "8", "2", "9", "6">> }
CompressionNames ==
    { COMPRESSION_STRING_NONE, COMPRESSION_STRING_PG_LZ, COMPRESSION_STRING_LZ4,
      COMPRESSION_STRING_ENC_LZ4, <<>>, <<"N", "O", "N", "E">>, <<"l", "z", "4", "x">>,
      <<"e", "n", "c", "_", "n", "o", "n", "e">> }

CompressionValues == {NULLPTR} \cup { CString(n) : n \in CompressionNames }
StripeRowCountValues ==
    {NULLPTR} \cup { CString(IntText(n)) : n \in StripeRowCountNumbers }
              \cup { CString(t) : t \in NonNumbers }
              \cup { CString(<<" ">> \o IntText(STRIPE_ROW_COUNT_MINIMUM) \o <<" ">>),
                     CString(<<"+">> \o IntText(STRIPE_ROW_COUNT_MAXIMUM)) }
BlockRowCountValues ==
    {NULLPTR} \cup { CString(IntText(n)) : n \in BlockRowCountNumbers }
              \cup { CString(t) : t \in NonNumbers }

\* every value of each option alone, and the values around the limits together
TableOptionLists ==
    { OptionList(c, NULLPTR, NULLPTR) : c \in CompressionValues }
    \cup { OptionList(NULLPTR, s, NULLPTR) : s \in StripeRowCountValues }
    \cup { OptionList(NULLPTR, NULLPTR, b) : b \in BlockRowCountValues }
    \cup { OptionList(CString(c), CString(IntText(s)), CString(IntText(b))) :
            c \in {COMPRESSION_STRING_PG_LZ, <<"l", "z", "4", "x">>},
            s \in {STRIPE_ROW_COUNT_MINIMUM - 1, STRIPE_ROW_COUNT_MAXIMUM},
            b \in {BLOCK_ROW_COUNT_MINIMUM, BLOCK_ROW_COUNT_MAXIMUM + 1} }

(***************************************************************************)
(* Entry points of the foreign data wrapper (cstore_fdw.c).                *)
(***************************************************************************)
EXEC_FLAG_EXPLAIN_ONLY == 1

T_CreateForeignServerStmt == "T_CreateForeignServerStmt"
T_CreateForeignTableStmt == "T_CreateForeignTableStmt"
T_OtherStmt == "T_OtherStmt"

\* the trigger's work for a new cstore table, beginning the write session before the
\* options are resolved
CreateTableFilesWritingFirst(optionList, ws, d, td) ==
    LET options == CStoreGetOptions(optionList)
        begun == CStoreBeginWrite(d, DEFAULT_COMPRESSION_TYPE, DEFAULT_STRIPE_ROW_COUNT,
                                  DEFAULT_BLOCK_ROW_COUNT)
        ended == CStoreEndWrite(begun[1], begun[2], td)
    IN  IF options.error # ""
        THEN [error |-> options.error,
              calls |-> <<"heap_open", "CStoreBeginWrite", "CStoreGetOptions">>,
              writeState |-> begun[1], disk |-> begun[2]]
        ELSE [error |-> "",
              calls |-> <<"heap_open", "CStoreBeginWrite", "CStoreGetOptions", "CStoreEndWrite",
                          "heap_close">>,
              writeState |-> ended[1], disk |-> ended[2]]

\* the trigger's work for a new cstore table, leaving the write session open
CreateTableFilesWithoutEndWrite(optionList, ws, d, td) ==
    LET options == CStoreGetOptions(optionList)
        begun == CStoreBeginWrite(d, options.compressionType, options.stripeRowCount,
                                  options.blockRowCount)
    IN  IF options.error # ""
        THEN [error |-> options.error, calls |-> <<"heap_open", "CStoreGetOptions">>,
              writeState |-> ws, disk |-> d]
        ELSE [error |-> "",
              calls |-> <<"heap_open", "CStoreGetOptions", "CStoreBeginWrite", "heap_close">>,
              writeState |-> [begun[1] EXCEPT !.open = FALSE], disk |-> begun[2]]

\* the trigger's work for a new cstore table: the error raised, the calls made in
\* order, and the write state and the files it leaves
CreateTableFiles(optionList, ws, d, td) ==
    LET options == CStoreGetOptions(optionList)
        begun == CStoreBeginWrite(d, options.compressionType, options.stripeRowCount,
                                  options.blockRowCount)
        ended == CStoreEndWrite(begun[1], begun[2], td)
    IN  IF options.error # ""
        THEN [error |-> options.error, calls |-> <<"heap_open", "CStoreGetOptions">>,
              writeState |-> ws, disk |-> d]
        ELSE [error |-> "",
              calls |-> <<"heap_open", "CStoreGetOptions", "CStoreBeginWrite", "CStoreEndWrite",
                          "heap_close">>,
              writeState |-> ended[1], disk |-> ended[2]]

\* CopyIntoCStoreTable opening the relation and the write session before it
\* checks the column list and the privilege
CopyOpenCheckingLate(attlist, source, superuser, optionList, ws, d) ==
    LET options == CStoreGetOptions(optionList)
        begun == CStoreBeginWrite(d, options.compressionType, options.stripeRowCount,
                                  options.blockRowCount)
    IN  IF options.error # ""
        THEN [error |-> options.error, calls |-> <<"heap_openrv", "CStoreGetOptions">>,
              writeState |-> ws, disk |-> d]
        ELSE IF attlist
        THEN [error |-> "copy column list is not supported",
              calls |-> <<"heap_openrv", "CStoreGetOptions", "BeginCopyFrom", "CStoreBeginWrite">>,
              writeState |-> begun[1], disk |-> begun[2]]
        ELSE IF source # "stdin" /\ ~superuser
        THEN [error |-> IF source = "program"
                        THEN "must be superuser to COPY to or from a program"
                        ELSE "must be superuser to COPY to or from a file",
              calls |-> <<"heap_openrv", "CStoreGetOptions", "BeginCopyFrom", "CStoreBeginWrite">>,
              writeState |-> begun[1], disk |-> begun[2]]
        ELSE [error |-> "",
              calls |-> <<"heap_openrv", "CStoreGetOptions", "BeginCopyFrom", "CStoreBeginWrite">>,
              writeState |-> begun[1], disk |-> begun[2]]

\* CopyIntoCStoreTable up to its row loop
CopyOpen(attlist, source, superuser, optionList, ws, d) ==
    LET options == CStoreGetOptions(optionList)
        begun == CStoreBeginWrite(d, options.compressionType, options.stripeRowCount,
                                  options.blockRowCount)
    IN  IF attlist
        THEN [error |-> "copy column list is not supported", calls |-> <<>>,
              writeState |-> ws, disk |-> d]
        ELSE IF source # "stdin" /\ ~superuser
        THEN [error |-> IF source = "program"
                        THEN "must be superuser to COPY to or from a program"
                        ELSE "must be superuser to COPY to or from a file",
              calls |-> <<>>, writeState |-> ws, disk |-> d]
        ELSE IF options.error # ""
        THEN [error |-> options.error, calls |-> <<"heap_openrv", "CStoreGetOptions">>,
              writeState |-> ws, disk |-> d]
        ELSE [error |-> "",
              calls |-> <<"heap_openrv", "CStoreGetOptions", "BeginCopyFrom", "CStoreBeginWrite">>,
              writeState |-> begun[1], disk |-> begun[2]]

\* CStoreBeginForeignScan without the test of EXEC_FLAG_EXPLAIN_ONLY
ScanOpenIgnoringExplain(executorFlags, optionList, columnList, whereClauseList, rs, d) ==
    LET options == CStoreGetOptions(optionList)
    IN  IF options.error # ""
        THEN [error |-> options.error, calls |-> <<"CStoreGetOptions">>,
              readState |-> rs, fdw_state |-> FALSE]
        ELSE IF ~d.footerFile.exists
        THEN [error |-> "could not open file", calls |-> <<"CStoreGetOptions", "CStoreBeginRead">>,
              readState |-> rs, fdw_state |-> FALSE]
        ELSE [error |-> "", calls |-> <<"CStoreGetOptions", "CStoreBeginRead">>,
              readState |-> CStoreBeginRead(d, columnList, whereClauseList),
              fdw_state |-> TRUE]

\* CStoreBeginForeignScan: the error raised, the calls made, the read state and
\* whether fdw_state is set
ScanOpen(executorFlags, optionList, columnList, whereClauseList, rs, d) ==
    LET options == CStoreGetOptions(optionList)
    IN  IF (executorFlags \div EXEC_FLAG_EXPLAIN_ONLY) % 2 = 1
        THEN [error |-> "", calls |-> <<>>, readState |-> rs, fdw_state |-> FALSE]
        ELSE IF options.error # ""
        THEN [error |-> options.error, calls |-> <<"CStoreGetOptions">>,
              readState |-> rs, fdw_state |-> FALSE]
        ELSE IF ~d.footerFile.exists
        THEN [error |-> "could not open file", calls |-> <<"CStoreGetOptions", "CStoreBeginRead">>,
              readState |-> rs, fdw_state |-> FALSE]
        ELSE [error |-> "", calls |-> <<"CStoreGetOptions", "CStoreBeginRead">>,
              readState |-> CStoreBeginRead(d, columnList, whereClauseList),
              fdw_state |-> TRUE]

Idle ==
    /\ ~writeState.open
    /\ ~readState.open
    /\ ~copyState.active
    /\ ~scanState.begun

cstore_ddl_event_end_trigger(calledAsEventTrigger, nodeTag, isCStore) ==
    /\ Idle
    /\ lastCommand' = [name |-> "cstore_ddl_event_end_trigger",
                       args |-> <<IF calledAsEventTrigger THEN "event trigger" ELSE "call",
                                  nodeTag, IF isCStore THEN "cstore_fdw" ELSE "other">>]
    /\ IF ~calledAsEventTrigger
       THEN /\ lastError' = "trigger not fired by event trigger manager"
            /\ calls' = <<>>
            /\ UNCHANGED <<writeState, disk>>
       ELSE IF nodeTag = T_CreateForeignServerStmt
       THEN /\ lastError' = ""
            /\ calls' = IF isCStore THEN <<"CreateCStoreDatabaseDirectory">> ELSE <<>>
            /\ UNCHANGED <<writeState, disk>>
       ELSE IF nodeTag = T_CreateForeignTableStmt /\ isCStore
       THEN \* the table is created once, before it has files
            /\ ~disk.dataFile.exists
            /\ LET outcome == CreateTableFiles(tableOptions, writeState, disk, tupleDescriptor)
               IN  /\ lastError' = outcome.error
                   /\ calls' = outcome.calls
                   /\ writeState' = outcome.writeState
                   /\ disk' = outcome.disk
       ELSE /\ lastError' = ""
            /\ calls' = <<>>
            /\ UNCHANGED <<writeState, disk>>
    /\ UNCHANGED lockVars
    /\ UNCHANGED utilityVars
    /\ UNCHANGED <<tupleDescriptor, readState, written, returned, readFinished, tableOptions,
                   copyState, scanState>>

CopyIntoCStoreTableBegin(attlist, source, superuser, maxCopyCommands) ==
    /\ Idle
    /\ copyState.copyCount < maxCopyCommands
    /\ lastCommand' = [name |-> "CopyIntoCStoreTable",
                       args |-> <<IF attlist THEN "attlist" ELSE "", source,
                                  IF superuser THEN "superuser" ELSE "user">>]
    /\ LET outcome == CopyOpen(attlist, source, superuser, tableOptions, writeState, disk)
       IN  /\ lastError' = outcome.error
           /\ calls' = outcome.calls
           /\ writeState' = outcome.writeState
           /\ disk' = outcome.disk
           /\ copyState' = [active |-> outcome.error = "", processedRowCount |-> 0,
                            copyCount |-> copyState.copyCount + 1, delivered |-> <<>>,
                            completionTag |-> <<>>]
    /\ UNCHANGED lockVars
    /\ UNCHANGED utilityVars
    /\ UNCHANGED <<tupleDescriptor, readState, written, returned, readFinished, tableOptions,
                   scanState>>

\* the row loop writing the row NextCopyFrom delivers twice
CopyIntoCStoreTableRowTwice(row, maxRows) ==
    /\ copyState.active
    /\ copyState.processedRowCount < maxRows
    /\ LET wrote == CStoreWriteRow(writeState, disk, tupleDescriptor, row)
           again == CStoreWriteRow(wrote[1], wrote[2], tupleDescriptor, row)
       IN  /\ writeState' = again[1]
           /\ disk' = again[2]
    /\ written' = written \o <<row, row>>
    /\ copyState' = [copyState EXCEPT !.processedRowCount = @ + 1,
                                      !.delivered = Append(@, row)]
    /\ calls' = <<"NextCopyFrom", "CStoreWriteRow", "CStoreWriteRow">>
    /\ UNCHANGED lockVars
    /\ UNCHANGED utilityVars
    /\ UNCHANGED <<tupleDescriptor, readState, returned, readFinished, tableOptions,
                   lastCommand, lastError, scanState>>

\* one round of the row loop in which NextCopyFrom delivers a row
CopyIntoCStoreTableRow(row, maxRows) ==
    /\ copyState.active
    /\ copyState.processedRowCount < maxRows
    /\ LET wrote == CStoreWriteRow(writeState, disk, tupleDescriptor, row)
       IN  /\ writeState' = wrote[1]
           /\ disk' = wrote[2]
    /\ written' = Append(written, row)
    /\ copyState' = [copyState EXCEPT !.processedRowCount = @ + 1,
                                      !.delivered = Append(@, row)]
    /\ calls' = <<"NextCopyFrom", "CStoreWriteRow">>
    /\ UNCHANGED lockVars
    /\ UNCHANGED utilityVars
    /\ UNCHANGED <<tupleDescriptor, readState, returned, readFinished, tableOptions,
                   lastCommand, lastError, scanState>>

CopyIntoCStoreTableEnd ==
    /\ copyState.active
    /\ LET ended == CStoreEndWrite(writeState, disk, tupleDescriptor)
       IN  /\ writeState' = ended[1]
           /\ disk' = ended[2]
    /\ copyState' = [copyState EXCEPT
                        !.active = FALSE,
                        !.completionTag = <<"COPY", copyState.processedRowCount>>]
    /\ calls' = <<"NextCopyFrom", "EndCopyFrom", "CStoreEndWrite", "heap_close">>
    /\ UNCHANGED lockVars
    /\ UNCHANGED utilityVars
    /\ UNCHANGED <<tupleDescriptor, readState, written, returned, readFinished, tableOptions,
                   lastCommand, lastError, scanState>>

CStoreBeginForeignScan(executorFlags, columnList, whereClauseList) ==
    /\ Idle
    /\ lastCommand' = [name |-> "CStoreBeginForeignScan",
                       args |-> <<IF executorFlags = 0 THEN "" ELSE "EXEC_FLAG_EXPLAIN_ONLY">>]
    /\ LET outcome == ScanOpen(executorFlags, tableOptions, columnList, whereClauseList,
                               readState, disk)
       IN  /\ lastError' = outcome.error
           /\ calls' = outcome.calls
           /\ readState' = outcome.readState
           /\ scanState' = [NoScan(tupleDescriptor.natts) EXCEPT
                               !.begun = outcome.error = "",
                               !.fdw_state = outcome.fdw_state,
                               !.columnList = columnList,
                               !.whereClauseList = whereClauseList]
    /\ returned' = <<>>
    /\ readFinished' = FALSE
    /\ UNCHANGED lockVars
    /\ UNCHANGED utilityVars
    /\ UNCHANGED <<tupleDescriptor, disk, writeState, written, tableOptions, copyState>>

\* CStoreIterateForeignScan without ExecClearTuple: at the end of the data the
\* slot keeps the row it held
CStoreIterateForeignScanKeepingSlot ==
    /\ scanState.begun
    /\ scanState.fdw_state
    /\ LET read == CStoreReadNextRow(readState, disk, NullRow(tupleDescriptor.natts))
       IN  /\ readState' = read.readState
           /\ scanState' = IF read.found
                           THEN [scanState EXCEPT !.tts_isempty = FALSE, !.tuple = read.row]
                           ELSE scanState
           /\ returned' = IF read.found THEN Append(returned, read.row) ELSE returned
           /\ readFinished' = ~read.found
    /\ calls' = <<"ExecClearTuple", "CStoreReadNextRow">>
    /\ UNCHANGED lockVars
    /\ UNCHANGED utilityVars
    /\ UNCHANGED <<tupleDescriptor, disk, writeState, written, tableOptions, lastCommand,
                   lastError, copyState>>

CStoreIterateForeignScan ==
    /\ scanState.begun
    /\ scanState.fdw_state
    /\ LET read == CStoreReadNextRow(readState, disk, NullRow(tupleDescriptor.natts))
       IN  /\ readState' = read.readState
           /\ scanState' = [scanState EXCEPT !.tts_isempty = ~read.found, !.tuple = read.row]
           /\ returned' = IF read.found THEN Append(returned, read.row) ELSE returned
           /\ readFinished' = ~read.found
    /\ calls' = <<"ExecClearTuple", "CStoreReadNextRow">>
    /\ UNCHANGED lockVars
    /\ UNCHANGED utilityVars
    /\ UNCHANGED <<tupleDescriptor, disk, writeState, written, tableOptions, lastCommand,
                   lastError, copyState>>

\* CStoreEndForeignScan without the call of CStoreEndRead
CStoreEndForeignScanLeavingOpen ==
    /\ scanState.begun
    /\ scanState' = NoScan(tupleDescriptor.natts)
    /\ calls' = <<>>
    /\ UNCHANGED lockVars
    /\ UNCHANGED utilityVars
    /\ UNCHANGED <<tupleDescriptor, disk, writeState, readState, written, returned,
                   readFinished, tableOptions, lastCommand, lastError, copyState>>

CStoreEndForeignScan ==
    /\ scanState.begun
    /\ readState' = IF scanState.fdw_state THEN CStoreEndRead(readState) ELSE readState
    /\ scanState' = NoScan(tupleDescriptor.natts)
    /\ calls' = IF scanState.fdw_state THEN <<"CStoreEndRead">> ELSE <<>>
    /\ UNCHANGED lockVars
    /\ UNCHANGED utilityVars
    /\ UNCHANGED <<tupleDescriptor, disk, writeState, written, returned, readFinished,
                   tableOptions, lastCommand, lastError, copyState>>

\* CStoreReScanForeignScan leaving the read session as it is
CStoreReScanForeignScanKeepingPosition ==
    /\ scanState.begun
    /\ scanState.fdw_state
    /\ lastError' = ""
    /\ calls' = <<"CStoreEndRead", "CStoreGetOptions", "CStoreBeginRead">>
    /\ returned' = <<>>
    /\ readFinished' = FALSE
    /\ UNCHANGED lockVars
    /\ UNCHANGED utilityVars
    /\ UNCHANGED <<tupleDescriptor, disk, writeState, readState, written, tableOptions,
                   lastCommand, copyState, scanState>>

CStoreReScanForeignScan ==
    /\ scanState.begun
    /\ scanState.fdw_state
    /\ LET ended == IF scanState.fdw_state THEN CStoreEndRead(readState) ELSE readState
           outcome == ScanOpen(0, tableOptions, scanState.columnList,
                               scanState.whereClauseList, ended, disk)
       IN  /\ lastError' = outcome.error
           /\ calls' = <<"CStoreEndRead">> \o outcome.calls
           /\ readState' = outcome.readState
           /\ scanState' = [scanState EXCEPT !.begun = outcome.error = "",
                                             !.fdw_state = outcome.fdw_state]
    /\ returned' = <<>>
    /\ readFinished' = FALSE
    /\ UNCHANGED lockVars
    /\ UNCHANGED utilityVars
    /\ UNCHANGED <<tupleDescriptor, disk, writeState, written, tableOptions, lastCommand,
                   copyState>>

\* <<calledAsEventTrigger, nodeTag, isCStore>> of the calls of the trigger
TriggerCalls ==
    { <<FALSE, T_CreateForeignTableStmt, TRUE>>, <<TRUE, T_CreateForeignServerStmt, TRUE>>,
      <<TRUE, T_CreateForeignTableStmt, TRUE>>, <<TRUE, T_CreateForeignTableStmt, FALSE>>,
      <<TRUE, T_OtherStmt, FALSE>> }

\* <<attlist given, source, superuser>> of the COPY statements
CopyStatements ==
    { <<TRUE, "stdin", TRUE>>, <<FALSE, "stdin", FALSE>>, <<FALSE, "file", TRUE>>,
      <<FALSE, "file", FALSE>>, <<FALSE, "program", FALSE>> }

\* the foreign table's options as the catalog holds them, which the entry points
\* resolve and validate again on every command
InitFdw ==
    /\ InitCore
    /\ tableOptions \in TableOptionLists

NextFdw ==
    \/ \E call \in TriggerCalls :
            cstore_ddl_event_end_trigger(call[1], call[2], call[3])
    \/ \E statement \in CopyStatements :
            CopyIntoCStoreTableBegin(statement[1], statement[2], statement[3], MaxCopyCommands)
    \/ \E row \in RowSet(tupleDescriptor.natts, MaxValue) : CopyIntoCStoreTableRow(row, MaxCopyRows)
    \/ CopyIntoCStoreTableEnd
    \/ \E executorFlags \in {0, EXEC_FLAG_EXPLAIN_ONLY} :
            CStoreBeginForeignScan(executorFlags, AllColumns(tupleDescriptor), <<>>)
    \/ CStoreIterateForeignScan
    \/ CStoreEndForeignScan
    \/ CStoreReScanForeignScan

SpecFdw == InitFdw /\ [][NextFdw]_vars

(***************************************************************************)
(* Row counts of one row: the options of a table ask for them, and a       *)
(* caller of the write API passes them directly.                           *)
(***************************************************************************)
OneRowOptionLists ==
    { OptionList(NULLPTR, CString(IntText(1)), NULLPTR),
      OptionList(NULLPTR, NULLPTR, CString(IntText(1))) }

InitBoundary ==
    /\ InitCore
    /\ tableOptions \in OneRowOptionLists

NextBoundary ==
    \/ cstore_ddl_event_end_trigger(TRUE, T_CreateForeignTableStmt, TRUE)
    \/ \E s \in 1..MaxStripeRows, b \in 1..MaxBlockRows : BeginWrite(COMPRESSION_NONE, s, b)
    \/ \E row \in RowSet(tupleDescriptor.natts, MaxValue) : WriteRow(row, MaxRows)
    \/ EndWrite
    \/ BeginRead(AllColumns(tupleDescriptor), <<>>)
    \/ ReadNextRow
    \/ EndRead

SpecBoundary == InitBoundary /\ [][NextBoundary]_vars

(***************************************************************************)
(* COPY into a table whose accepted row counts are the least ones: enough  *)
(* rows to fill a stripe and go on.                                        *)
(***************************************************************************)
ScaleOptionLists ==
    { OptionList(NULLPTR, CString(IntText(STRIPE_ROW_COUNT_MINIMUM + 1)),
                 CString(IntText(BLOCK_ROW_COUNT_MINIMUM))),
      OptionList(NULLPTR, CString(IntText(STRIPE_ROW_COUNT_MINIMUM)),
                 CString(IntText(BLOCK_ROW_COUNT_MINIMUM))) }

InitScale ==
    /\ InitCore
    /\ tupleDescriptor.natts = 1
    /\ tableOptions \in ScaleOptionLists

NextScale ==
    \/ CopyIntoCStoreTableBegin(FALSE, "stdin", FALSE, MaxCopyCommands)
    \/ CopyIntoCStoreTableRow(NullRow(tupleDescriptor.natts), MaxScaleRows)
    \/ CopyIntoCStoreTableEnd

SpecScale == InitScale /\ [][NextScale]_vars

(***************************************************************************)
(* Read sessions with predicates over files of a few rows.                 *)
(***************************************************************************)
PredicateSet(natts) ==
    [column : 1..natts, operator : SupportedOperators \cup {"<>"},
     constant : 0..(MaxPruneValue + 1)]

\* no predicate, every single predicate, and pairs of equalities and bounds
WhereClauseLists(natts) ==
    {<<>>}
    \cup { <<p>> : p \in PredicateSet(natts) }
    \cup { <<p, q>> : p \in { x \in PredicateSet(natts) :
                                x.column = 1 /\ x.operator \in {"=", ">"}
                                /\ x.constant \in 1..MaxPruneValue },
                      q \in { x \in PredicateSet(natts) :
                                x.column = natts /\ x.operator \in {"=", "<"}
                                /\ x.constant \in 1..MaxPruneValue } }

NextPrune ==
    \/ \E s \in 1..MaxPruneRows, b \in 1..MaxPruneRows : BeginWrite(COMPRESSION_NONE, s, b)
    \/ \E row \in RowSet(tupleDescriptor.natts, MaxPruneValue) : WriteRow(row, MaxPruneRows)
    \/ EndWrite
    \/ \E whereClauseList \in WhereClauseLists(tupleDescriptor.natts) :
            BeginRead(AllColumns(tupleDescriptor), whereClauseList)
    \/ ReadNextRow
    \/ EndRead

SpecPrune == Init /\ [][NextPrune]_vars

(***************************************************************************)
(* Properties of the write/read sessions.                                  *)
(***************************************************************************)
\* the rows of one block, put together again from the columns' arrays
BlockRows(stripe, b) ==
    [i \in 1..stripe.skipList[1][b].rowCount |->
        [columnValues |-> [c \in 1..stripe.columnCount |->
                              stripe.columnDataArray[c][b].valueArray[i]],
         columnNulls |-> [c \in 1..stripe.columnCount |->
                              ~stripe.columnDataArray[c][b].existsArray[i]]]]

RECURSIVE BlocksRows(_, _)
BlocksRows(stripe, b) ==
    IF b > stripe.blockCount THEN <<>>
    ELSE BlockRows(stripe, b) \o BlocksRows(stripe, b + 1)

\* the rows of a stripe of the data file, in block order
StripeRows(stripe) == BlocksRows(stripe, 1)

\* the row counts of the stripes that hold n rows under a limit of s rows
RECURSIVE StripeRowCounts(_, _)
StripeRowCounts(n, s) ==
    IF n = 0 THEN <<>>
    ELSE IF n >= s THEN <<s>> \o StripeRowCounts(n - s, s)
    ELSE <<n>>

SessionBegun == writeState.stripeMaxRowCount > 0
SessionClosed == SessionBegun /\ ~writeState.open

PlainRead ==
    /\ readState.open
    /\ readState.projectedColumnList = AllColumns(tupleDescriptor)
    /\ readState.whereClauseList = <<>>

\* C1: a read session with all columns projected and no predicates, opened after
\* the write session, hands back the written rows in the written order: what it
\* has returned is always a prefix of the written rows, the next call finds a row
\* exactly when rows are left and that row is the next written one, and once a
\* call has reported end-of-data everything written has been returned.
RoundTrip ==
    PlainRead =>
        LET next == CStoreReadNextRow(readState, disk, NullRow(tupleDescriptor.natts))
        IN  /\ Len(returned) <= Len(written)
            /\ returned = SubSeq(written, 1, Len(returned))
            /\ next.found <=> Len(returned) < Len(written)
            /\ next.found => next.row = written[Len(returned) + 1]
            /\ readFinished => returned = written

\* C1 witness: three rows, one of them all null, in two stripes of which the last
\* ends in a partially filled block, read back to end-of-data
RoundTripWitness ==
    /\ PlainRead
    /\ readFinished
    /\ returned = written
    /\ Len(written) = 3
    /\ \E i \in 1..3 : written[i] = NullRow(tupleDescriptor.natts)
    /\ Len(disk.dataFile.stripes) = 2
    /\ disk.dataFile.stripes[2].stripe.skipList[1][1].rowCount < writeState.blockRowCount

\* C8: with N rows written under a stripe limit of S, every stripe in the file
\* holds between 1 and S rows and holds exactly its own segment of the written
\* rows (so no later write changes it); while the session is open there are
\* N div S stripes, all full; after the close the footer lists ceil(N/S) stripes
\* in write order, all full but the last, which holds the remainder.
StripePartition ==
    LET N == Len(written)
        S == writeState.stripeMaxRowCount
        stripes == disk.dataFile.stripes
        list == disk.footerFile.tableFooter.stripeMetadataList
    IN  /\ StripeRowCounts(250000, 100000) = <<100000, 100000, 50000>>
        /\ SessionBegun =>
            /\ \A k \in 1..Len(stripes) :
                /\ stripes[k].stripe.rowCount \in 1..S
                /\ StripeRows(stripes[k].stripe)
                     = SubSeq(written, (k - 1) * S + 1, Minimum(k * S, N))
            /\ writeState.open =>
                /\ Len(stripes) = N \div S
                /\ \A k \in 1..Len(stripes) : stripes[k].stripe.rowCount = S
                /\ (IF writeState.hasStripeData THEN writeState.stripeData.rowCount ELSE 0)
                     = N % S
            /\ ~writeState.open =>
                /\ Len(list) = (N + S - 1) \div S
                /\ Len(stripes) = Len(list)
                /\ \A k \in 1..Len(list) : stripes[k].fileOffset = list[k].fileOffset
                /\ [k \in 1..Len(stripes) |-> stripes[k].stripe.rowCount]
                     = StripeRowCounts(N, S)

\* C8 witness: a closed session that left a full stripe and a shorter last one
StripePartitionWitness ==
    /\ SessionClosed
    /\ Len(written) = 3
    /\ writeState.stripeMaxRowCount = 2
    /\ Len(disk.footerFile.tableFooter.stripeMetadataList) = 2
    /\ disk.dataFile.stripes[1].stripe.rowCount = 2
    /\ disk.dataFile.stripes[2].stripe.rowCount = 1

\* C10: the footer file is not written while the session is open, whatever was
\* flushed; the close writes it once, and it then lists one StripeMetadata per
\* flushed stripe, in flush order, each giving the offset and the lengths of its
\* stripe, the stripes lying one after the other from offset 0.
FooterWrittenOnce ==
    LET stripes == disk.dataFile.stripes
        list == disk.footerFile.tableFooter.stripeMetadataList
    IN  /\ writeState.open => disk.footerWriteCount = 0 /\ ~disk.footerFile.exists
        /\ SessionClosed =>
            /\ disk.footerWriteCount = 1
            /\ disk.footerFile.exists
            /\ Len(list) = Len(stripes)
            /\ \A k \in 1..Len(list) :
                /\ list[k].fileOffset = stripes[k].fileOffset
                /\ list[k].fileOffset =
                     IF k = 1 THEN 0
                     ELSE list[k - 1].fileOffset + StripeMetadataSize(list[k - 1])
                /\ list[k].skipListLength =
                     stripes[k].stripe.columnCount * stripes[k].stripe.blockCount
                /\ list[k].dataLength =
                     2 * stripes[k].stripe.columnCount * stripes[k].stripe.rowCount
                /\ list[k].footerLength = stripes[k].stripe.columnCount

\* C10 witness: a closed session that flushed one stripe on a write and one at the close
FooterWrittenOnceWitness ==
    /\ SessionClosed
    /\ disk.footerWriteCount = 1
    /\ Len(disk.footerFile.tableFooter.stripeMetadataList) = 2
    /\ Len(written) = 3

(***************************************************************************)
(* Properties of the options and the entry points.                         *)
(***************************************************************************)
Range(seq) == { seq[i] : i \in 1..Len(seq) }

\* the values the table's options give for a name
Given(optionName) ==
    { tableOptions[i].arg :
        i \in { j \in 1..Len(tableOptions) : tableOptions[j].defname = optionName } }

\* the ways a number is typed as an option value
NumberTexts(numbers) ==
    { pre \o IntText(n) \o post :
        n \in numbers, pre \in {<<>>, <<" ">>, <<"+">>}, post \in {<<>>, <<" ">>} }

OptionErrors ==
    { "invalid compression type", "invalid stripe row count", "invalid block row count",
      "invalid input syntax for integer", "value out of range for type integer" }

\* the command that ran last resolved the table's options
OptionsResolved == "CStoreGetOptions" \in Range(calls)

FourNames ==
    { <<"n", "o", "n", "e">>, <<"p", "g", "l", "z">>, <<"l", "z", "4">>,
      <<"e", "n", "c", "_", "l", "z", "4">> }

KindOf(name) ==
    CASE name = <<"n", "o", "n", "e">> -> 0
      [] name = <<"p", "g", "l", "z">> -> 1
      [] name = <<"l", "z", "4">> -> 2
      [] name = <<"e", "n", "c", "_", "l", "z", "4">> -> 3

FileActivityCalls == {"CStoreBeginWrite", "CStoreBeginRead", "BeginCopyFrom"}

BlockRowCounts(stripe) == [b \in 1..stripe.blockCount |-> stripe.skipList[1][b].rowCount]

\* C3: whenever a command has resolved the table's options, it has raised an
\* option error exactly if a stripe row count is given that is not a number from
\* 1000 to 10000000, or a block row count is given that is not a number from 1000
\* to 100000, or a compression name is given that is none of the four names; so
\* both ends of each range are accepted and an option not given rejects nothing.
OptionValidation ==
    OptionsResolved =>
        LET stripeOutside ==
                \E v \in Given("stripe_row_count") :
                    v \notin NumberTexts({ n \in StripeRowCountNumbers :
                                            n >= 1000 /\ n <= 10000000 })
            blockOutside ==
                \E v \in Given("block_row_count") :
                    v \notin NumberTexts({ n \in BlockRowCountNumbers :
                                            n >= 1000 /\ n <= 100000 })
            unrecognized == \E v \in Given("compression") : v \notin FourNames
        IN  (lastError \in OptionErrors) <=> (stripeOutside \/ blockOutside \/ unrecognized)

\* C3 witness: a stripe row count one above the maximum has been rejected
OptionValidationWitness ==
    /\ OptionsResolved
    /\ Given("stripe_row_count") = { IntText(10000001) }
    /\ lastError = "invalid stripe row count"

\* C4: in every command, a call of CStoreBeginWrite, CStoreBeginRead or
\* BeginCopyFrom comes after the call of CStoreGetOptions; and a command in which
\* CStoreGetOptions raises an option error makes none of these calls, leaves the
\* data file and the footer file as they were, and leaves no write session, read
\* session, COPY or scan open.
ConfigurationErrorsFirst ==
    [][ /\ \A i \in 1..Len(calls') :
            calls'[i] \in FileActivityCalls =>
                \E j \in 1..(i - 1) : calls'[j] = "CStoreGetOptions"
        /\ ("CStoreGetOptions" \in Range(calls') /\ lastError' \in OptionErrors) =>
            /\ Range(calls') \cap FileActivityCalls = {}
            /\ disk' = disk
            /\ writeState' = writeState
            /\ ~writeState'.open
            /\ ~readState'.open
            /\ ~copyState'.active
            /\ ~scanState'.fdw_state ]_vars

\* C4 witness: COPY into a table that has no files yet stopped at an option error
ConfigurationErrorsFirstWitness ==
    /\ lastCommand.name = "CopyIntoCStoreTable"
    /\ lastError \in OptionErrors
    /\ calls = <<"heap_openrv", "CStoreGetOptions">>
    /\ ~disk.dataFile.exists
    /\ ~disk.footerFile.exists

\* C5 as stated: a stripe or block row count of 1 in the table's options is
\* accepted, and sessions with a row count of 1 behave as in C5 amended.
OneRowAccepted ==
    /\ OptionsResolved /\ (<<"1">> \in Given("stripe_row_count")
                           \/ <<"1">> \in Given("block_row_count")) => lastError = ""
    /\ SessionBegun /\ writeState.blockRowCount = 1 =>
            \A k \in 1..Len(disk.dataFile.stripes) :
                \A b \in 1..disk.dataFile.stripes[k].stripe.blockCount :
                    BlockRowCounts(disk.dataFile.stripes[k].stripe)[b] = 1
    /\ SessionBegun /\ writeState.stripeMaxRowCount = 1 =>
            \A k \in 1..Len(disk.dataFile.stripes) :
                disk.dataFile.stripes[k].stripe.rowCount = 1

\* C5 amended: a row count of 1 in the table's options is rejected with the range
\* error of its option, the least accepted value being 1000; a write session that
\* is given a block row count of 1 directly puts every row into a block of its
\* own, one given a stripe row count of 1 puts every row into a stripe of its own,
\* and in both cases the written rows read back unchanged.
OneRowBoundary ==
    /\ OptionsResolved =>
        /\ <<"1">> \in Given("stripe_row_count") => lastError = "invalid stripe row count"
        /\ <<"1">> \in Given("block_row_count") => lastError = "invalid block row count"
    /\ SessionBegun /\ writeState.blockRowCount = 1 =>
        /\ \A k \in 1..Len(disk.dataFile.stripes) :
                \A b \in 1..disk.dataFile.stripes[k].stripe.blockCount :
                    BlockRowCounts(disk.dataFile.stripes[k].stripe)[b] = 1
        /\ SessionClosed =>
                SumSeq([k \in 1..Len(disk.dataFile.stripes) |->
                            disk.dataFile.stripes[k].stripe.blockCount]) = Len(written)
    /\ SessionBegun /\ writeState.stripeMaxRowCount = 1 =>
        /\ \A k \in 1..Len(disk.dataFile.stripes) :
                disk.dataFile.stripes[k].stripe.rowCount = 1
        /\ Len(disk.dataFile.stripes) = Len(written)
    /\ (PlainRead /\ readFinished
        /\ (writeState.blockRowCount = 1 \/ writeState.stripeMaxRowCount = 1)) =>
            returned = written

\* C5 witness: the option was rejected, and a session given a block row count of 1
\* directly wrote three rows into three blocks, which were read back
OneRowBoundaryWitness ==
    /\ OptionsResolved
    /\ lastError = "invalid block row count"
    /\ SessionClosed
    /\ writeState.blockRowCount = 1
    /\ writeState.stripeMaxRowCount = 2
    /\ Len(written) = 3
    /\ PlainRead
    /\ readFinished
    /\ returned = written

\* C6: a command that resolved the options has raised "invalid compression type"
\* exactly if a compression name is given that is none of none, pglz, lz4 and
\* enc_lz4; a write session is only ever opened with one of the four kinds, the
\* one of the name given (none if no name is given), never the invalid kind or
\* COMPRESSION_ENC_NONE.
ClosedCompressionSet ==
    /\ OptionsResolved =>
        ((\E v \in Given("compression") : v \notin FourNames)
            <=> lastError = "invalid compression type")
    /\ SessionBegun =>
        /\ writeState.compressionType \in {0, 1, 2, 3}
        /\ writeState.compressionType \notin {COMPRESSION_TYPE_INVALID, COMPRESSION_ENC_NONE}
        /\ \A v \in Given("compression") :
                v \in FourNames /\ writeState.compressionType = KindOf(v)
        /\ Given("compression") = {} => writeState.compressionType = 0

\* C6 witness: COPY has opened a write session for a table whose compression is enc_lz4
ClosedCompressionSetWitness ==
    /\ copyState.active
    /\ writeState.open
    /\ Given("compression") = { <<"e", "n", "c", "_", "l", "z", "4">> }
    /\ writeState.compressionType = 3

\* C7: after the trigger has run for a new cstore table without error, the data
\* file and the footer file exist, the footer's stripe list is empty and the
\* write session is closed; a scan of a table whose footer lists no stripe gets
\* end-of-data, an empty slot and no row from its first read.
ZeroRowFile ==
    /\ (/\ lastCommand = [name |-> "cstore_ddl_event_end_trigger",
                          args |-> <<"event trigger", "T_CreateForeignTableStmt",
                                     "cstore_fdw">>]
        /\ lastError = "") =>
            /\ disk.dataFile.exists
            /\ disk.dataFile.stripes = <<>>
            /\ disk.footerFile.exists
            /\ disk.footerFile.tableFooter.stripeMetadataList = <<>>
            /\ ~writeState.open
    /\ (/\ scanState.fdw_state
        /\ disk.footerFile.tableFooter.stripeMetadataList = <<>>
        /\ "CStoreReadNextRow" \in Range(calls)) =>
            /\ readFinished
            /\ returned = <<>>
            /\ scanState.tts_isempty

\* C7 witness: the table was created, nothing was copied, and the first read of a
\* scan reported end-of-data
ZeroRowFileWitness ==
    /\ lastCommand.name = "CStoreBeginForeignScan"
    /\ copyState.copyCount = 0
    /\ disk.footerWriteCount = 1
    /\ disk.footerFile.tableFooter.stripeMetadataList = <<>>
    /\ "CStoreReadNextRow" \in Range(calls)
    /\ readFinished
    /\ scanState.tts_isempty

\* C9 as stated: in the file, a block with fewer rows than the block row count is
\* the last block of the last stripe; every other block has exactly the block
\* row count.
ShortBlockOnlyAtFileEnd ==
    SessionBegun =>
        \A k \in 1..Len(disk.dataFile.stripes) :
            \A b \in 1..disk.dataFile.stripes[k].stripe.blockCount :
                (k # Len(disk.dataFile.stripes) \/ b # disk.dataFile.stripes[k].stripe.blockCount)
                    => BlockRowCounts(disk.dataFile.stripes[k].stripe)[b]
                         = writeState.blockRowCount

\* C9 amended: in every stripe of the file every block but the last has exactly
\* the block row count, and the last block has at least one row and at most the
\* block row count; the last block of a stripe is shorter only if the stripe is
\* full and the block row count does not divide the stripe row count (the block
\* then holds the remainder), or if the stripe holds fewer rows than the stripe
\* row count. Such a stripe is flushed only by the close of a write session:
\* every stripe an open session has flushed is full, and the file holds at most
\* one stripe that is not full per closed session.
ShortBlockOnlyAtStripeEnd ==
    SessionBegun =>
        LET B == writeState.blockRowCount
            S == writeState.stripeMaxRowCount
            stripes == disk.dataFile.stripes
        IN  /\ \A k \in 1..Len(stripes) :
                LET counts == BlockRowCounts(stripes[k].stripe)
                    last == stripes[k].stripe.blockCount
                IN  /\ last >= 1
                    /\ \A b \in 1..(last - 1) : counts[b] = B
                    /\ counts[last] \in 1..B
                    /\ counts[last] < B =>
                        \/ /\ stripes[k].stripe.rowCount = S
                           /\ S % B # 0
                           /\ counts[last] = S % B
                        \/ stripes[k].stripe.rowCount < S
            /\ writeState.open =>
                \A k \in 1..Len(stripes) :
                    k > Len(disk.footerFile.tableFooter.stripeMetadataList)
                        => stripes[k].stripe.rowCount = S
            /\ Cardinality({ k \in 1..Len(stripes) : stripes[k].stripe.rowCount < S })
                    <= disk.footerWriteCount

\* C9 witness: under the accepted pair (1001, 1000) the first of two stripes ends
\* in a block of one row
ShortBlockOnlyAtStripeEndWitness ==
    /\ SessionClosed
    /\ writeState.stripeMaxRowCount = 1001
    /\ writeState.blockRowCount = 1000
    /\ Len(disk.dataFile.stripes) = 2
    /\ BlockRowCounts(disk.dataFile.stripes[1].stripe) = <<1000, 1>>

\* a row satisfies every predicate of the list
Satisfies(row, whereClauseList) ==
    \A i \in 1..Len(whereClauseList) :
        PredicateHolds(whereClauseList[i], row.columnNulls[whereClauseList[i].column],
                       row.columnValues[whereClauseList[i].column])

\* no value from the block's minimum to its maximum satisfies the predicate
ProvablyDisjoint(p, node) ==
    /\ node.hasMinMax
    /\ \A v \in node.minimumValue..node.maximumValue : ~PredicateHolds(p, FALSE, v)

MaxWriteSessions == 2

WRITE_ERROR == "could not write file"

\* the byte counts a failing flush has written: nothing, the skip list only,
\* all but the last byte
PartialLengths(stripeMetadata) ==
    {0, stripeMetadata.skipListLength, StripeMetadataSize(stripeMetadata) - 1}

\* FlushStripe failing after writtenLength bytes, with the failed stripe's
\* metadata appended to the footer all the same
FlushStripeFailsAppendingMetadata(ws, d, writtenLength) ==
    <<[ws EXCEPT !.open = FALSE,
                 !.tableFooter.stripeMetadataList = Append(@, FlushedStripeMetadata(ws))],
      [d EXCEPT !.dataFile.stripes = StripesBefore(@, ws.currentFileOffset),
                !.partialStripe = [fileOffset |-> ws.currentFileOffset,
                                   length |-> writtenLength]]>>

\* FlushStripe failing after writtenLength bytes: the pair <<write state, disk>>
FlushStripeFails(ws, d, writtenLength) ==
    <<[ws EXCEPT !.open = FALSE],
      [d EXCEPT !.dataFile.stripes = StripesBefore(@, ws.currentFileOffset),
                !.partialStripe = [fileOffset |-> ws.currentFileOffset,
                                   length |-> writtenLength]]>>

\* CStoreBeginWrite on a new table or on one that already has its files; the
\* table's options are those of its earlier sessions
BeginWriteSession(compressionType, stripeMaxRowCount, blockRowCount, maxSessions) ==
    /\ ~writeState.open
    /\ ~readState.open
    /\ disk.footerWriteCount < maxSessions
    /\ disk.dataFile.exists =>
          /\ compressionType = writeState.compressionType
          /\ stripeMaxRowCount = writeState.stripeMaxRowCount
          /\ blockRowCount = writeState.blockRowCount
    /\ LET begun == CStoreBeginWrite(disk, compressionType, stripeMaxRowCount, blockRowCount)
       IN  /\ writeState' = begun[1]
           /\ disk' = begun[2]
    /\ written' = <<>>
    /\ lastCommand' = [name |-> "CStoreBeginWrite", args |-> <<>>]
    /\ lastError' = ""
    /\ UNCHANGED lockVars
    /\ UNCHANGED utilityVars
    /\ UNCHANGED <<tupleDescriptor, readState, returned, readFinished, tableOptions, calls,
                   copyState, scanState>>

\* CStoreWriteRow whose row fills the stripe and whose flush fails
WriteRowFails(row, maxRows) ==
    /\ writeState.open
    /\ Len(written) < maxRows
    /\ LET stripeData == IF writeState.hasStripeData THEN writeState.stripeData
                         ELSE EmptyStripeData(tupleDescriptor.natts)
           ws1 == [writeState EXCEPT
                      !.hasStripeData = TRUE,
                      !.stripeData = AppendRowToStripe(stripeData, writeState.blockRowCount,
                                                       row)]
       IN  /\ ws1.stripeData.rowCount >= ws1.stripeMaxRowCount
           /\ \E writtenLength \in PartialLengths(FlushedStripeMetadata(ws1)) :
                 LET failed == FlushStripeFails(ws1, disk, writtenLength)
                 IN  /\ writeState' = failed[1]
                     /\ disk' = failed[2]
    /\ written' = Append(written, row)
    /\ lastCommand' = [name |-> "CStoreWriteRow", args |-> <<row>>]
    /\ lastError' = WRITE_ERROR
    /\ UNCHANGED lockVars
    /\ UNCHANGED utilityVars
    /\ UNCHANGED <<tupleDescriptor, readState, returned, readFinished, tableOptions, calls,
                   copyState, scanState>>

\* CStoreEndWrite whose flush of the last, non-full stripe fails
EndWriteFails ==
    /\ writeState.open
    /\ writeState.hasStripeData
    /\ \E writtenLength \in PartialLengths(FlushedStripeMetadata(writeState)) :
          LET failed == FlushStripeFails(writeState, disk, writtenLength)
          IN  /\ writeState' = failed[1]
              /\ disk' = failed[2]
    /\ lastCommand' = [name |-> "CStoreEndWrite", args |-> <<>>]
    /\ lastError' = WRITE_ERROR
    /\ UNCHANGED lockVars
    /\ UNCHANGED utilityVars
    /\ UNCHANGED <<tupleDescriptor, readState, written, returned, readFinished, tableOptions,
                   calls, copyState, scanState>>

NextFail ==
    \/ \E s \in 1..MaxStripeRows, b \in 1..MaxBlockRows :
          BeginWriteSession(COMPRESSION_NONE, s, b, MaxWriteSessions)
    \/ \E row \in RowSet(tupleDescriptor.natts, MaxValue) : WriteRow(row, MaxRows)
    \/ \E row \in RowSet(tupleDescriptor.natts, MaxValue) : WriteRowFails(row, MaxRows)
    \/ EndWrite
    \/ EndWriteFails

SpecFail == Init /\ [][NextFail]_vars

(***************************************************************************)
(* Properties of failing write sessions                                    *)
(***************************************************************************)
\* the stripe a StripeMetadata locates is whole in the data file: it lies at
\* the recorded offset with the recorded lengths and no byte of it belongs to
\* a stripe whose flush did not complete
FlushedCompletely(d, stripeMetadata) ==
    /\ \E i \in 1..Len(d.dataFile.stripes) :
          LET entry == d.dataFile.stripes[i]
          IN  /\ entry.fileOffset = stripeMetadata.fileOffset
              /\ stripeMetadata.skipListLength
                     = entry.stripe.columnCount * entry.stripe.blockCount
              /\ stripeMetadata.dataLength
                     = 2 * entry.stripe.columnCount * entry.stripe.rowCount
              /\ stripeMetadata.footerLength = entry.stripe.columnCount
    /\ d.partialStripe.length > 0 =>
          d.partialStripe.fileOffset
              >= stripeMetadata.fileOffset + StripeMetadataSize(stripeMetadata)

FooterStripesComplete(tableFooter, d) ==
    \A k \in 1..Len(tableFooter.stripeMetadataList) :
        FlushedCompletely(d, tableFooter.stripeMetadataList[k])

\* the stripes either footer references, in memory or on disk
ReferencedStripes(ws, d) ==
    Range(ws.tableFooter.stripeMetadataList) \cup Range(d.footerFile.tableFooter.stripeMetadataList)

\* C11: a write session whose stripe flush fails is aborted with neither
\* footer changed: the footer in memory and the footer file reference the same
\* stripes as before the failure, the footer file is not written, and every
\* stripe that was sealed before the failure is unchanged in the data file; in
\* every state every StripeMetadata of either footer locates a stripe that was
\* flushed completely.
FailedWriteKeepsFooter ==
    [][/\ FooterStripesComplete(writeState'.tableFooter, disk')
       /\ FooterStripesComplete(disk'.footerFile.tableFooter, disk')
       /\ (writeState.open /\ lastError' = WRITE_ERROR) =>
             /\ ~writeState'.open
             /\ writeState'.tableFooter = writeState.tableFooter
             /\ disk'.footerFile = disk.footerFile
             /\ disk'.footerWriteCount = disk.footerWriteCount
             /\ \A stripeMetadata \in ReferencedStripes(writeState, disk) :
                   disk'.dataFile.stripes[StripeAt(disk', stripeMetadata.fileOffset)]
                       = disk.dataFile.stripes[StripeAt(disk, stripeMetadata.fileOffset)]]_vars

\* a session appending to a table of one stripe sealed a second stripe and
\* then failed in the flush of a third, leaving bytes of it in the data file
FailedWriteKeepsFooterWitness ==
    /\ lastError = WRITE_ERROR
    /\ ~writeState.open
    /\ disk.partialStripe.length > 0
    /\ Len(disk.footerFile.tableFooter.stripeMetadataList) = 1
    /\ Len(writeState.tableFooter.stripeMetadataList) = 2
    /\ Len(disk.dataFile.stripes) = 2

(***************************************************************************)
(* Backends running commands on one table concurrently.  A backend's       *)
(* command is a sequence of steps that interleave with the steps of the    *)
(* other backends; heap_open / heap_openrv waits while another backend     *)
(* holds a conflicting lock on the relation.                               *)
(***************************************************************************)
MaxWriters == 2
MaxLockRows == 1

AccessShareLock == "AccessShareLock"
ExclusiveLock == "ExclusiveLock"

\* CopyIntoCStoreTable opening the relation with the lock mode of a scan
CopyLockModeShared == AccessShareLock

\* the lock mode CopyIntoCStoreTable opens the relation with
CopyLockMode == ExclusiveLock

\* the lock mode the trigger opens the relation with
TriggerLockMode == ExclusiveLock

\* lock modes that cannot be held on one relation by two backends at once
LockConflicts(heldMode, requestedMode) ==
    <<heldMode, requestedMode>> \in {<<ExclusiveLock, ExclusiveLock>>}

COMMAND_COPY == "COPY"
COMMAND_CREATE == "CREATE FOREIGN TABLE"
COMMAND_SELECT == "SELECT"

WriterBackends == 1..MaxWriters
ReaderBackends == {MaxWriters + 1}

\* a backend that has not started its command
NewBackend(command) ==
    [command |-> command, pc |-> "start", lockmode |-> "", writeState |-> ClosedWriteState,
     processedRowCount |-> 0, readState |-> ClosedReadState, returned |-> <<>>,
     readFinished |-> FALSE, error |-> ""]

\* the lock mode a command opens the relation with
CommandLockMode(command) ==
    IF command = COMMAND_COPY THEN CopyLockMode
    ELSE IF command = COMMAND_CREATE THEN TriggerLockMode
    ELSE AccessShareLock

\* a lock request is granted when no other backend holds a conflicting lock
LockGrantable(locks, backend, lockmode) ==
    \A held \in locks : held[1] # backend => ~LockConflicts(held[2], lockmode)

\* heap_open / heap_openrv with the command's lock mode
LockRelation(b) ==
    /\ backends[b].pc = "start"
    /\ LockGrantable(relationLocks, b, CommandLockMode(backends[b].command))
    /\ relationLocks' = relationLocks \cup {<<b, CommandLockMode(backends[b].command)>>}
    /\ backends' = [backends EXCEPT ![b].pc = "opened",
                                    ![b].lockmode = CommandLockMode(backends[b].command)]
    /\ UNCHANGED <<coreVars, fdwVars>>
    /\ UNCHANGED utilityVars

\* CStoreBeginWrite of COPY and of the trigger, with the table's options
BackendBeginWrite(b) ==
    /\ backends[b].pc = "opened"
    /\ backends[b].command \in {COMMAND_COPY, COMMAND_CREATE}
    /\ LET options == CStoreGetOptions(tableOptions)
           begun == CStoreBeginWrite(disk, options.compressionType, options.stripeRowCount,
                                     options.blockRowCount)
       IN  /\ backends' = [backends EXCEPT ![b].pc = "writing", ![b].writeState = begun[1]]
           /\ disk' = begun[2]
    /\ UNCHANGED <<tupleDescriptor, writeState, readState, written, returned, readFinished,
                   fdwVars, relationLocks>>
    /\ UNCHANGED utilityVars

\* one round of the row loop of CopyIntoCStoreTable that finds a row
BackendWriteRow(b, row, maxRows) ==
    /\ backends[b].pc = "writing"
    /\ backends[b].command = COMMAND_COPY
    /\ backends[b].processedRowCount < maxRows
    /\ LET wrote == CStoreWriteRow(backends[b].writeState, disk, tupleDescriptor, row)
       IN  /\ backends' = [backends EXCEPT ![b].writeState = wrote[1],
                                           ![b].processedRowCount = @ + 1]
           /\ disk' = wrote[2]
    /\ UNCHANGED <<tupleDescriptor, writeState, readState, written, returned, readFinished,
                   fdwVars, relationLocks>>
    /\ UNCHANGED utilityVars

\* CStoreEndWrite of COPY and of the trigger
BackendEndWrite(b) ==
    /\ backends[b].pc = "writing"
    /\ LET ended == CStoreEndWrite(backends[b].writeState, disk, tupleDescriptor)
       IN  /\ backends' = [backends EXCEPT ![b].pc = "ended", ![b].writeState = ended[1]]
           /\ disk' = ended[2]
    /\ UNCHANGED <<tupleDescriptor, writeState, readState, written, returned, readFinished,
                   fdwVars, relationLocks>>
    /\ UNCHANGED utilityVars

\* CStoreBeginRead of a scan; without a footer file the scan ends with an error
BackendBeginRead(b, projectedColumnList, whereClauseList) ==
    /\ backends[b].pc = "opened"
    /\ backends[b].command = COMMAND_SELECT
    /\ backends' = IF disk.footerFile.exists
                   THEN [backends EXCEPT
                            ![b].pc = "reading",
                            ![b].readState = CStoreBeginRead(disk, projectedColumnList,
                                                             whereClauseList)]
                   ELSE [backends EXCEPT ![b].pc = "ended",
                                         ![b].error = "could not open file"]
    /\ UNCHANGED <<coreVars, fdwVars, relationLocks>>
    /\ UNCHANGED utilityVars

\* one read state for all scans: every backend reads through the first one's
BackendReadStateShared(bs, b) == bs[CHOOSE first \in DOMAIN bs :
                                      /\ bs[first].command = COMMAND_SELECT
                                      /\ \A o \in DOMAIN bs :
                                            bs[o].command = COMMAND_SELECT => first <= o].readState

\* the read state of a backend's scan: scanState->fdw_state
BackendReadState(bs, b) == bs[b].readState

\* CStoreReadNextRow of a scan
BackendReadNextRow(b) ==
    /\ backends[b].pc = "reading"
    /\ ~backends[b].readFinished
    /\ LET read == CStoreReadNextRow(BackendReadState(backends, b), disk,
                                     NullRow(tupleDescriptor.natts))
       IN  backends' = [backends EXCEPT
                           ![b].readState = read.readState,
                           ![b].returned = IF read.found THEN Append(@, read.row) ELSE @,
                           ![b].readFinished = ~read.found]
    /\ UNCHANGED <<coreVars, fdwVars, relationLocks>>
    /\ UNCHANGED utilityVars

\* CStoreEndRead of a scan
BackendEndRead(b) ==
    /\ backends[b].pc = "reading"
    /\ backends' = [backends EXCEPT ![b].pc = "ended",
                                    ![b].readState = CStoreEndRead(backends[b].readState)]
    /\ UNCHANGED <<coreVars, fdwVars, relationLocks>>
    /\ UNCHANGED utilityVars

\* heap_close with the lock mode the relation was opened with
UnlockRelation(b) ==
    /\ backends[b].pc = "ended"
    /\ relationLocks' = relationLocks \ {<<b, backends[b].lockmode>>}
    /\ backends' = [backends EXCEPT ![b].pc = "done"]
    /\ UNCHANGED <<coreVars, fdwVars>>
    /\ UNCHANGED utilityVars

\* the files of a table that does not exist yet, and of one created earlier
TableFilesSet(td) ==
    {NoFiles, CreateTableFiles(<<>>, ClosedWriteState, NoFiles, td).disk}

InitLock ==
    /\ tupleDescriptor \in TupleDescriptorSet
    /\ disk \in TableFilesSet(tupleDescriptor)
    /\ writeState = ClosedWriteState
    /\ readState = ClosedReadState
    /\ written = <<>>
    /\ returned = <<>>
    /\ readFinished = FALSE
    /\ tableOptions = <<>>
    /\ lastCommand = NoCommand
    /\ lastError = ""
    /\ calls = <<>>
    /\ copyState = NoCopy
    /\ scanState = NoScan(tupleDescriptor.natts)
    /\ relationLocks = {}
    /\ PreviousProcessUtilityHook = FALSE
    /\ catalog = Catalog
    /\ fileSystem = CatalogFiles
    /\ sampleState = NoSample
    /\ \E commands \in [WriterBackends -> {COMMAND_COPY, COMMAND_CREATE}] :
          backends = [b \in WriterBackends \cup ReaderBackends |->
                         IF b \in WriterBackends THEN NewBackend(commands[b])
                         ELSE NewBackend(COMMAND_SELECT)]

NextLock ==
    \/ \E b \in DOMAIN backends : LockRelation(b)
    \/ \E b \in DOMAIN backends : BackendBeginWrite(b)
    \/ \E b \in DOMAIN backends, row \in RowSet(tupleDescriptor.natts, MaxValue) :
          BackendWriteRow(b, row, MaxLockRows)
    \/ \E b \in DOMAIN backends : BackendEndWrite(b)
    \/ \E b \in DOMAIN backends : BackendBeginRead(b, AllColumns(tupleDescriptor), <<>>)
    \/ \E b \in DOMAIN backends : BackendReadNextRow(b)
    \/ \E b \in DOMAIN backends : BackendEndRead(b)
    \/ \E b \in DOMAIN backends : UnlockRelation(b)

SpecLock == InitLock /\ [][NextLock]_vars

\* C12: the write sessions of COPY commands and CREATE FOREIGN TABLE triggers
\* on one table never overlap: a backend's write session is open only while
\* the backend holds ExclusiveLock on the relation, so no two backends have a
\* write session open at once, under every interleaving of their steps; a
\* scan's request for AccessShareLock is granted in every state, also while a
\* writer holds its lock.
WriteSessionsSerialized ==
    /\ \A a \in WriterBackends, b \in WriterBackends :
          a # b => ~(backends[a].writeState.open /\ backends[b].writeState.open)
    /\ \A b \in WriterBackends :
          backends[b].writeState.open => <<b, ExclusiveLock>> \in relationLocks
    /\ \A b \in ReaderBackends : LockGrantable(relationLocks, b, AccessShareLock)

\* a writer has its session open with a row written while the other writer
\* waits for the lock and the scan, started after the writer's lock was
\* granted, has its read session open
WriteSessionsSerializedWitness ==
    /\ backends[1].writeState.open
    /\ backends[1].processedRowCount > 0
    /\ backends[2].pc = "start"
    /\ ~LockGrantable(relationLocks, 2, CommandLockMode(backends[2].command))
    /\ \E b \in ReaderBackends :
          /\ backends[b].readState.open
          /\ <<b, AccessShareLock>> \in relationLocks

(***************************************************************************)
(* Two scans of one completed file, each with its own predicates,          *)
(* interleaved call by call.                                               *)
(***************************************************************************)
MaxScans == 2
MaxScanRows == 3
MaxScanValue == 2

ScanBackends == 1..MaxScans

\* the predicates of a backend's scan: no two backends scan with the same ones
ScanWhereClauseLists(b) ==
    IF b = 1 THEN {<<>>, <<[column |-> 1, operator |-> "=", constant |-> 1]>>}
    ELSE {<<[column |-> 1, operator |-> ">", constant |-> b - 1]>>,
          <<[column |-> 1, operator |-> "<=", constant |-> b - 1]>>}

InitScans ==
    /\ InitCore
    /\ tupleDescriptor.natts = 1
    /\ tableOptions = <<>>

\* ExecInitForeignScan: a backend starts a scan while the others are at any
\* point of theirs
StartScan(b) ==
    /\ b \notin DOMAIN backends
    /\ b = Len(backends) + 1
    /\ ~writeState.open
    /\ disk.footerFile.exists
    /\ backends' = Append(backends, [NewBackend(COMMAND_SELECT) EXCEPT
                                        !.pc = "opened", !.lockmode = AccessShareLock])
    /\ relationLocks' = relationLocks \cup {<<b, AccessShareLock>>}
    /\ UNCHANGED <<coreVars, fdwVars>>
    /\ UNCHANGED utilityVars

NextScans ==
    \/ \E s \in 1..MaxPruneRows, b \in 1..MaxPruneRows : BeginWrite(COMPRESSION_NONE, s, b)
    \/ \E row \in RowSet(tupleDescriptor.natts, MaxScanValue) : WriteRow(row, MaxScanRows)
    \/ EndWrite
    \/ \E b \in ScanBackends : StartScan(b)
    \/ \E b \in DOMAIN backends :
          \E whereClauseList \in ScanWhereClauseLists(b) :
              BackendBeginRead(b, AllColumns(tupleDescriptor), whereClauseList)
    \/ \E b \in DOMAIN backends : BackendReadNextRow(b)
    \/ \E b \in DOMAIN backends : BackendEndRead(b)
    \/ \E b \in DOMAIN backends : UnlockRelation(b)

SpecScans == InitScans /\ [][NextScans]_vars

\* the rows a read session returns when it runs alone from the given state on
RECURSIVE RowsFrom(_, _, _)
RowsFrom(rs, d, natts) ==
    LET read == CStoreReadNextRow(rs, d, NullRow(natts))
    IN  IF read.found THEN <<read.row>> \o RowsFrom(read.readState, d, natts) ELSE <<>>

\* the rows a scan of the file with these columns and predicates returns alone
LoneScan(d, natts, projectedColumnList, whereClauseList) ==
    RowsFrom(CStoreBeginRead(d, projectedColumnList, whereClauseList), d, natts)

IsPrefix(s, t) == Len(s) <= Len(t) /\ s = SubSeq(t, 1, Len(s))

\* a scan has returned what it returns alone up to this point
ScanAsAlone(backend, d, natts, fileRows) ==
    backend.readState.open =>
        LET alone == LoneScan(d, natts, backend.readState.projectedColumnList,
                              backend.readState.whereClauseList)
            Sat(row) == Satisfies(row, backend.readState.whereClauseList)
        IN  /\ IsPrefix(backend.returned, alone)
            /\ backend.readFinished =>
                  /\ backend.returned = alone
                  /\ SelectSeq(backend.returned, Sat) = SelectSeq(fileRows, Sat)

\* C13: read sessions on one completed file, each with its own predicates and
\* interleaved call by call, are independent: after every step each scan has
\* returned a prefix of the rows it returns when it runs alone, at its end
\* exactly those rows, among them every row of the file that satisfies its
\* predicates in file order; and a step of one scan changes nothing of another
\* scan's state (position, decoded stripe, rows returned).
IndependentReaders ==
    [][/\ \A b \in DOMAIN backends' :
             ScanAsAlone(backends'[b], disk', tupleDescriptor'.natts, written')
       /\ \A b \in DOMAIN backends :
             backends'[b] # backends[b] =>
                \A o \in DOMAIN backends : o # b => backends'[o] = backends[o]]_vars

\* two scans with different predicates have both come to their end after
\* their calls interleaved, with different results
IndependentReadersWitness ==
    /\ Len(backends) = 2
    /\ backends[1].readState.open /\ backends[2].readState.open
    /\ backends[1].readState.whereClauseList # backends[2].readState.whereClauseList
    /\ backends[1].readFinished /\ backends[2].readFinished
    /\ backends[1].returned # backends[2].returned
    /\ Len(backends[1].returned) > 0 /\ Len(backends[2].returned) > 0
    /\ Len(backends[1].returned) < Len(written)
    /\ Len(disk.dataFile.stripes) > 1

(***************************************************************************)
(* Scans through the executor's callbacks with a plan's target columns and *)
(* restriction clauses, on a file written by one write session.            *)
(***************************************************************************)
MaxPlanRows == 3

\* ColumnList: the columns of the target list and of the restriction clauses,
\* each once, in attribute order
ColumnList(targetColumns, whereClauseList, natts) ==
    LET needed == targetColumns \cup { whereClauseList[i].column : i \in 1..Len(whereClauseList) }
    IN  SelectSeq([c \in 1..natts |-> c], LAMBDA c : c \in needed)

\* the target columns of the plans
TargetColumnSets(natts) == SUBSET (1..natts)

\* the restriction clauses of the plans
PlanWhereClauseLists(natts) ==
    {<<>>,
     <<[column |-> 1, operator |-> "=", constant |-> 1]>>,
     <<[column |-> natts, operator |-> ">", constant |-> 0]>>}

NextPlan ==
    \/ \E s \in 1..MaxPruneRows, b \in 1..MaxPruneRows : BeginWrite(COMPRESSION_NONE, s, b)
    \/ \E row \in RowSet(tupleDescriptor.natts, MaxValue) : WriteRow(row, MaxPlanRows)
    \/ EndWrite
    \/ \E executorFlags \in {0, EXEC_FLAG_EXPLAIN_ONLY},
          targetColumns \in TargetColumnSets(tupleDescriptor.natts),
          whereClauseList \in PlanWhereClauseLists(tupleDescriptor.natts) :
            CStoreBeginForeignScan(executorFlags,
                                   ColumnList(targetColumns, whereClauseList,
                                              tupleDescriptor.natts),
                                   whereClauseList)
    \/ CStoreIterateForeignScan
    \/ CStoreEndForeignScan
    \/ CStoreReScanForeignScan

SpecPlan == Init /\ [][NextPlan]_vars

\* the calls CStoreReScanForeignScan makes
ReScanCalls == <<"CStoreEndRead", "CStoreGetOptions", "CStoreBeginRead">>

\* C14: CStoreReScanForeignScan, after any number of rows and also after the
\* end of the data, leaves a fresh read session open on the same file with
\* the scan's projection and predicates and with no cursor position of the
\* previous session (no stripe read, no stripe decoded, no row consumed); the
\* iterations that follow return the rows of a scan that has just begun: a
\* prefix of them after every call and all of them at the end of the data.
RescanRestarts ==
    [][/\ calls' = ReScanCalls =>
             /\ scanState'.begun /\ scanState'.fdw_state
             /\ scanState'.columnList = scanState.columnList
             /\ scanState'.whereClauseList = scanState.whereClauseList
             /\ readState' = CStoreBeginRead(disk, scanState.columnList,
                                             scanState.whereClauseList)
             /\ readState'.readStripeCount = 0
             /\ readState'.stripeReadRowCount = 0
             /\ ~readState'.hasStripeData
             /\ disk' = disk
       /\ (scanState'.begun /\ scanState'.fdw_state) =>
             LET alone == LoneScan(disk', tupleDescriptor'.natts, scanState'.columnList,
                                   scanState'.whereClauseList)
             IN  /\ IsPrefix(returned', alone)
                 /\ readFinished' => returned' = alone]_vars

\* a scan with a predicate and a projection was restarted after it had
\* returned a row: the slot still holds the row, the new session has read
\* nothing of a file of two stripes
RescanRestartsWitness ==
    /\ calls = ReScanCalls
    /\ scanState.begun /\ scanState.fdw_state
    /\ ~scanState.tts_isempty
    /\ scanState.whereClauseList # <<>>
    /\ Len(scanState.columnList) < tupleDescriptor.natts
    /\ readState.open
    /\ readState.readStripeCount = 0
    /\ returned = <<>>
    /\ Len(disk.dataFile.stripes) = 2

(***************************************************************************)
(* The two files of a table by name: cstore_table_size and                 *)
(* DeleteCStoreTableFiles.                                                 *)
(***************************************************************************)
MaxFileRows == 2

\* st_size of the data file: the end of the last byte written to it
DataFileSize(d) ==
    SetMax({0}
           \cup { d.dataFile.stripes[i].fileOffset
                    + StripeSkipListLength(d.dataFile.stripes[i].stripe,
                                           d.dataFile.stripes[i].stripe.blockCount)
                    + StripeDataLength(d.dataFile.stripes[i].stripe)
                    + StripeFooterLength(d.dataFile.stripes[i].stripe) :
                  i \in 1..Len(d.dataFile.stripes) }
           \cup {d.partialStripe.fileOffset + d.partialStripe.length})

\* st_size of the footer file: the serialized table footer with its postscript
FooterFileSize(d) == 2 + 4 * Len(d.footerFile.tableFooter.stripeMetadataList)

\* stat(name): whether it succeeds, and st_size; the table's files are
\* tableFilename and the footer file beside it
Stat(d, tableFilename, name, statFails) ==
    IF name = tableFilename /\ d.dataFile.exists /\ ~statFails
    THEN [ok |-> TRUE, st_size |-> DataFileSize(d)]
    ELSE IF name = FooterFilenameOf(tableFilename) /\ d.footerFile.exists /\ ~statFails
    THEN [ok |-> TRUE, st_size |-> FooterFileSize(d)]
    ELSE [ok |-> FALSE, st_size |-> 0]

\* cstore_table_size returning the size of the data file alone
TableSizeOfDataFile(isCStore, optionList, tableFilename, d, dataStatFails, footerStatFails) ==
    LET options == CStoreGetOptions(optionList)
        dataFileStat == Stat(d, tableFilename, options.filename, dataStatFails)
        footerFileStat == Stat(d, tableFilename, FooterFilenameOf(options.filename),
                               footerStatFails)
    IN  IF ~isCStore
        THEN [error |-> "relation is not a cstore table", calls |-> <<>>,
              result |-> [isNull |-> TRUE, value |-> 0]]
        ELSE IF options.error # ""
        THEN [error |-> options.error, calls |-> <<>>,
              result |-> [isNull |-> TRUE, value |-> 0]]
        ELSE IF ~dataFileStat.ok
        THEN [error |-> "could not stat file", calls |-> <<<<"stat", options.filename>>>>,
              result |-> [isNull |-> TRUE, value |-> 0]]
        ELSE [error |-> "",
              calls |-> <<<<"stat", options.filename>>>>,
              result |-> [isNull |-> FALSE, value |-> 0 + dataFileStat.st_size]]

\* cstore_table_size: the error it raises ("" for none), the stat calls it
\* makes and the Datum it returns
TableSize(isCStore, optionList, tableFilename, d, dataStatFails, footerStatFails) ==
    LET options == CStoreGetOptions(optionList)
        dataFileStat == Stat(d, tableFilename, options.filename, dataStatFails)
        footerFileStat == Stat(d, tableFilename, FooterFilenameOf(options.filename),
                               footerStatFails)
    IN  IF ~isCStore
        THEN [error |-> "relation is not a cstore table", calls |-> <<>>,
              result |-> [isNull |-> TRUE, value |-> 0]]
        ELSE IF options.error # ""
        THEN [error |-> options.error, calls |-> <<>>,
              result |-> [isNull |-> TRUE, value |-> 0]]
        ELSE IF ~dataFileStat.ok
        THEN [error |-> "could not stat file", calls |-> <<<<"stat", options.filename>>>>,
              result |-> [isNull |-> TRUE, value |-> 0]]
        ELSE IF ~footerFileStat.ok
        THEN [error |-> "could not stat file",
              calls |-> <<<<"stat", options.filename>>,
                          <<"stat", FooterFilenameOf(options.filename)>>>>,
              result |-> [isNull |-> TRUE, value |-> 0]]
        ELSE [error |-> "",
              calls |-> <<<<"stat", options.filename>>,
                          <<"stat", FooterFilenameOf(options.filename)>>>>,
              result |-> [isNull |-> FALSE,
                          value |-> 0 + dataFileStat.st_size + footerFileStat.st_size]]

\* the name of the table's data file: the filename option or the default path
TableFilename == CStoreGetOptions(tableOptions).filename

cstore_table_size(isCStore, dataStatFails, footerStatFails) ==
    /\ LET outcome == TableSize(isCStore, tableOptions, TableFilename, disk, dataStatFails,
                                footerStatFails)
       IN  /\ lastCommand' = [name |-> "cstore_table_size",
                              args |-> <<isCStore, dataStatFails, footerStatFails>>,
                              result |-> outcome.result]
           /\ lastError' = outcome.error
           /\ calls' = outcome.calls
    /\ UNCHANGED lockVars
    /\ UNCHANGED utilityVars
    /\ UNCHANGED <<coreVars, tableOptions, copyState, scanState>>

\* unlink(name) on the table's files: the result and the files afterwards
Unlink(d, tableFilename, name, unlinkFails) ==
    IF name = tableFilename /\ d.dataFile.exists /\ ~unlinkFails
    THEN [result |-> 0, disk |-> [d EXCEPT !.dataFile = NoFiles.dataFile,
                                           !.partialStripe = NoPartialStripe]]
    ELSE IF name = FooterFilenameOf(tableFilename) /\ d.footerFile.exists /\ ~unlinkFails
    THEN [result |-> 0, disk |-> [d EXCEPT !.footerFile = NoFiles.footerFile,
                                           !.footerWriteCount = 0]]
    ELSE [result |-> -1, disk |-> d]

\* DeleteCStoreTableFiles giving up after the footer file could not be removed
DeleteFilesStoppingAtFailure(filename, tableFilename, d, footerUnlinkFails, dataUnlinkFails) ==
    LET footerFileRemoved == Unlink(d, tableFilename, FooterFilenameOf(filename),
                                    footerUnlinkFails)
        dataFileRemoved == Unlink(footerFileRemoved.disk, tableFilename, filename,
                                  dataUnlinkFails)
    IN  IF footerFileRemoved.result # 0
        THEN [error |-> "could not delete file",
              calls |-> <<<<"unlink", FooterFilenameOf(filename)>>>>,
              warnings |-> <<>>,
              disk |-> footerFileRemoved.disk]
        ELSE [error |-> "",
              calls |-> <<<<"unlink", FooterFilenameOf(filename)>>, <<"unlink", filename>>>>,
              warnings |-> IF dataFileRemoved.result # 0
                           THEN <<<<"could not delete file", filename>>>> ELSE <<>>,
              disk |-> dataFileRemoved.disk]

\* DeleteCStoreTableFiles(filename): the unlink calls it makes, the warnings
\* it reports, the error it raises (none) and the files afterwards
DeleteFiles(filename, tableFilename, d, footerUnlinkFails, dataUnlinkFails) ==
    LET footerFileRemoved == Unlink(d, tableFilename, FooterFilenameOf(filename),
                                    footerUnlinkFails)
        dataFileRemoved == Unlink(footerFileRemoved.disk, tableFilename, filename,
                                  dataUnlinkFails)
    IN  [error |-> "",
         calls |-> <<<<"unlink", FooterFilenameOf(filename)>>, <<"unlink", filename>>>>,
         warnings |->
            (IF footerFileRemoved.result # 0
             THEN <<<<"could not delete file", FooterFilenameOf(filename)>>>> ELSE <<>>)
            \o (IF dataFileRemoved.result # 0
                THEN <<<<"could not delete file", filename>>>> ELSE <<>>),
         disk |-> dataFileRemoved.disk]

\* DROP FOREIGN TABLE of the table: DeleteCStoreTableFiles with its filename
DeleteCStoreTableFiles(footerUnlinkFails, dataUnlinkFails) ==
    /\ Idle
    /\ LET outcome == DeleteFiles(TableFilename, TableFilename, disk, footerUnlinkFails,
                                  dataUnlinkFails)
       IN  /\ lastCommand' = [name |-> "DeleteCStoreTableFiles",
                              args |-> <<footerUnlinkFails, dataUnlinkFails>>,
                              warnings |-> outcome.warnings]
           /\ lastError' = outcome.error
           /\ calls' = outcome.calls
           /\ disk' = outcome.disk
    /\ UNCHANGED lockVars
    /\ UNCHANGED utilityVars
    /\ UNCHANGED <<tupleDescriptor, writeState, readState, written, returned, readFinished,
                   tableOptions, copyState, scanState>>

\* the option lists of a table with the default file path and with a file name
FileOptionLists == {<<>>, <<[defname |-> OPTION_NAME_FILENAME, arg |-> <<"/", "t">>]>>}

InitFiles ==
    /\ InitCore
    /\ tableOptions \in FileOptionLists

NextFiles ==
    \/ \E s \in 1..MaxStripeRows, b \in 1..MaxBlockRows : BeginWrite(COMPRESSION_NONE, s, b)
    \/ \E row \in RowSet(tupleDescriptor.natts, MaxValue) : WriteRow(row, MaxFileRows)
    \/ EndWrite
    \/ \E isCStore \in BOOLEAN, dataStatFails \in BOOLEAN, footerStatFails \in BOOLEAN :
          cstore_table_size(isCStore, dataStatFails, footerStatFails)
    \/ \E footerUnlinkFails \in BOOLEAN, dataUnlinkFails \in BOOLEAN :
          DeleteCStoreTableFiles(footerUnlinkFails, dataUnlinkFails)

SpecFiles == InitFiles /\ [][NextFiles]_vars

\* the bytes of the stripes of the data file, stripe by stripe
StripeBytes(d) ==
    SumSeq([i \in 1..Len(d.dataFile.stripes) |->
               LET stripe == d.dataFile.stripes[i].stripe
               IN  stripe.columnCount * stripe.blockCount
                   + 2 * stripe.columnCount * stripe.rowCount
                   + stripe.columnCount])

\* C15: cstore_table_size of a cstore table whose two files can be stat'ed
\* returns the size of the data file plus the size of the footer file, the
\* file named as the data file with ".footer" appended; for a relation that is
\* not a cstore table, and when stat fails on the data file or on the footer
\* file, it raises an error and returns nothing, no partial sum either.  This
\* holds for the call made in any state of the table's files.
TableSizeIsSumOfBoth ==
    \A isCStore \in BOOLEAN, dataStatFails \in BOOLEAN, footerStatFails \in BOOLEAN :
        LET outcome == TableSize(isCStore, tableOptions, TableFilename, disk, dataStatFails,
                                 footerStatFails)
            dataStatOk == disk.dataFile.exists /\ ~dataStatFails
            footerStatOk == disk.footerFile.exists /\ ~footerStatFails
            dataFilename == IF tableOptions = <<>> THEN CStoreDefaultFilePath
                            ELSE tableOptions[1].arg
            footerFilename == dataFilename \o <<".", "f", "o", "o", "t", "e", "r">>
        IN  /\ (isCStore /\ dataStatOk /\ footerStatOk) =>
                  /\ outcome.error = ""
                  /\ ~outcome.result.isNull
                  /\ outcome.result.value
                        = StripeBytes(disk)
                          + 2 + 4 * Len(disk.footerFile.tableFooter.stripeMetadataList)
                  /\ outcome.calls = <<<<"stat", dataFilename>>, <<"stat", footerFilename>>>>
            /\ ~isCStore =>
                  /\ outcome.error = "relation is not a cstore table"
                  /\ outcome.result.isNull
                  /\ outcome.calls = <<>>
            /\ (isCStore /\ ~(dataStatOk /\ footerStatOk)) =>
                  /\ outcome.error = "could not stat file"
                  /\ outcome.result.isNull
                  /\ outcome.calls[Len(outcome.calls)][2]
                        = IF dataStatOk THEN footerFilename ELSE dataFilename

\* the size of a table of two stripes was returned: more than the size of
\* either of its files
TableSizeIsSumOfBothWitness ==
    /\ lastCommand.name = "cstore_table_size"
    /\ lastError = ""
    /\ Len(disk.dataFile.stripes) = 2
    /\ lastCommand.result.value > DataFileSize(disk)
    /\ lastCommand.result.value > FooterFileSize(disk)
    /\ tableOptions # <<>>

\* C16: DeleteCStoreTableFiles always calls unlink on the footer file and
\* then on the data file: a failure of either is reported as a warning and
\* never as an error, the other file is removed all the same, and a file whose
\* unlink succeeds is gone afterwards.  This holds for the call made in any
\* state of the table's files.
DeleteAttemptsBoth ==
    \A footerUnlinkFails \in BOOLEAN, dataUnlinkFails \in BOOLEAN :
        LET outcome == DeleteFiles(TableFilename, TableFilename, disk, footerUnlinkFails,
                                   dataUnlinkFails)
            footerFails == ~disk.footerFile.exists \/ footerUnlinkFails
            dataFails == ~disk.dataFile.exists \/ dataUnlinkFails
            dataFilename == IF tableOptions = <<>> THEN CStoreDefaultFilePath
                            ELSE tableOptions[1].arg
            footerFilename == dataFilename \o <<".", "f", "o", "o", "t", "e", "r">>
        IN  /\ outcome.error = ""
            /\ outcome.calls = <<<<"unlink", footerFilename>>, <<"unlink", dataFilename>>>>
            /\ Len(outcome.warnings)
                  = (IF footerFails THEN 1 ELSE 0) + (IF dataFails THEN 1 ELSE 0)
            /\ footerFails <=>
                  <<"could not delete file", footerFilename>> \in Range(outcome.warnings)
            /\ dataFails <=>
                  <<"could not delete file", dataFilename>> \in Range(outcome.warnings)
            /\ outcome.disk.footerFile.exists <=> (disk.footerFile.exists /\ footerFails)
            /\ outcome.disk.dataFile.exists <=> (disk.dataFile.exists /\ dataFails)

\* the footer file of a written table could not be removed: a warning was
\* reported and the data file was removed all the same
DeleteAttemptsBothWitness ==
    /\ lastCommand.name = "DeleteCStoreTableFiles"
    /\ lastCommand.args = <<TRUE, FALSE>>
    /\ Len(lastCommand.warnings) = 1
    /\ lastError = ""
    /\ disk.footerFile.exists
    /\ Len(disk.footerFile.tableFooter.stripeMetadataList) > 0
    /\ ~disk.dataFile.exists

(***************************************************************************)
(* COPY statements through the utility hook.                               *)
(***************************************************************************)
MaxUtilityStatements == 2

\* the error code of the errors CopyIntoCStoreTable raises before it opens
\* the relation
ErrorCode(message) ==
    IF message = "copy column list is not supported" THEN "ERRCODE_FEATURE_NOT_SUPPORTED"
    ELSE IF message \in {"must be superuser to COPY to or from a program",
                         "must be superuser to COPY to or from a file"}
    THEN "ERRCODE_INSUFFICIENT_PRIVILEGE"
    ELSE ""

\* the lock a call takes on the relation, "" for none
CallLockMode(call) ==
    IF call = "RangeVarGetRelid" THEN AccessShareLock
    ELSE IF call = "heap_openrv" THEN CopyLockMode
    ELSE IF call = "heap_open" THEN TriggerLockMode
    ELSE ""

T_CopyStmt == "T_CopyStmt"
T_DropStmt == "T_DropStmt"
OBJECT_FOREIGN_TABLE == "OBJECT_FOREIGN_TABLE"
OBJECT_TABLE == "OBJECT_TABLE"

\* the utility statements as parse trees
CopyStatement(is_from, relation, attlist, source) ==
    [tag |-> T_CopyStmt, is_from |-> is_from, relation |-> relation, attlist |-> attlist,
     source |-> source, removeType |-> "", objects |-> <<>>]
DropStatement(removeType, objects) ==
    [tag |-> T_DropStmt, is_from |-> FALSE, relation |-> "", attlist |-> FALSE,
     source |-> "", removeType |-> removeType, objects |-> objects]
OtherStatement ==
    [tag |-> T_OtherStmt, is_from |-> FALSE, relation |-> "", attlist |-> FALSE,
     source |-> "", removeType |-> "", objects |-> <<>>]

\* RangeVarGetRelid: the relation of that name, InvalidOid when there is none
RangeVarGetRelid(cat, relation) ==
    IF relation \in DOMAIN cat THEN relation ELSE InvalidOid

\* CStoreTable taking every foreign table for a cstore table
CStoreTableOfAnyWrapper(cat, relationId) ==
    IF relationId = InvalidOid THEN FALSE
    ELSE cat[relationId].relkind = RELKIND_FOREIGN_TABLE

CStoreTable(cat, relationId) ==
    IF relationId = InvalidOid THEN FALSE
    ELSE IF cat[relationId].relkind = RELKIND_FOREIGN_TABLE
    THEN cat[relationId].fdwname = CSTORE_FDW_NAME
    ELSE FALSE

\* the option list CStoreGetOptions reads for a foreign table
RelationOptions(cat, relationId, optionList) ==
    IF relationId = CSTORE_TABLE THEN optionList ELSE cat[relationId].options

NoDrop == [dropCStoreTable |-> FALSE, tableFilename |-> <<>>, calls |-> <<>>]

\* the loop of CStoreProcessUtility over the objects of a DROP FOREIGN TABLE
RECURSIVE DropObjects(_, _, _, _)
DropObjects(objects, cat, optionList, found) ==
    IF objects = <<>> THEN found
    ELSE LET relationId == RangeVarGetRelid(cat, Head(objects))
         IN  DropObjects(
                 Tail(objects), cat, optionList,
                 IF CStoreTable(cat, relationId)
                 THEN [dropCStoreTable |-> TRUE,
                       tableFilename |->
                          CStoreGetOptions(RelationOptions(cat, relationId, optionList)).filename,
                       calls |-> found.calls
                                 \o <<"RangeVarGetRelid", "CStoreTable", "CStoreGetOptions">>]
                 ELSE [found EXCEPT !.calls = @ \o <<"RangeVarGetRelid", "CStoreTable">>])

\* unlink(name) on the files of the other tables
UnlinkFile(fs, name, unlinkFails) ==
    IF name \in fs /\ ~unlinkFails
    THEN [result |-> 0, fileSystem |-> fs \ {name}]
    ELSE [result |-> -1, fileSystem |-> fs]

\* DeleteCStoreTableFiles(filename) on the files of the table itself and of
\* the other tables
DeleteTableFiles(filename, tableFilename, d, fs, footerUnlinkFails, dataUnlinkFails) ==
    LET own == DeleteFiles(filename, tableFilename, d, footerUnlinkFails, dataUnlinkFails)
        footerFileRemoved == UnlinkFile(fs, FooterFilenameOf(filename), footerUnlinkFails)
        dataFileRemoved == UnlinkFile(footerFileRemoved.fileSystem, filename, dataUnlinkFails)
    IN  IF filename = tableFilename
        THEN [unlinks |-> own.calls, warnings |-> own.warnings, disk |-> own.disk,
              fileSystem |-> fs]
        ELSE [unlinks |-> own.calls,
              warnings |->
                 (IF footerFileRemoved.result # 0
                  THEN <<<<"could not delete file", FooterFilenameOf(filename)>>>> ELSE <<>>)
                 \o (IF dataFileRemoved.result # 0
                     THEN <<<<"could not delete file", filename>>>> ELSE <<>>),
              disk |-> d, fileSystem |-> dataFileRemoved.fileSystem]

\* the catalog after the utility command has run: a DROP removes the
\* relations it names
CommandCatalog(statement, cat) ==
    IF statement.tag = T_DropStmt
    THEN [relation \in DOMAIN cat \ Range(statement.objects) |-> cat[relation]]
    ELSE cat

\* the utility command can run without an error: a DROP names, of the
\* relations that exist, only those of the kind it removes
CommandCanSucceed(statement, cat) ==
    statement.tag = T_DropStmt =>
       \A i \in 1..Len(statement.objects) :
          statement.objects[i] \in DOMAIN cat =>
             cat[statement.objects[i]].relkind =
                IF statement.removeType = OBJECT_FOREIGN_TABLE THEN RELKIND_FOREIGN_TABLE
                ELSE RELKIND_RELATION

\* what ProcessUtility leaves behind when nothing runs or is deleted
UtilityOutcome(error, callList, ws, d, fs, cat, copyIntoCStoreTable) ==
    [error |-> error, calls |-> callList, writeState |-> ws, disk |-> d, fileSystem |-> fs,
     catalog |-> cat, copyIntoCStoreTable |-> copyIntoCStoreTable, unlinks |-> <<>>,
     warnings |-> <<>>]

\* CStoreProcessUtility deleting the files before the utility command runs
ProcessUtilityDeletingFirst(statement, superuser, commandFails, footerUnlinkFails, dataUnlinkFails, previousHook, cat, fs, optionList, ws, d) ==
    LET isCopyFrom == statement.tag = T_CopyStmt /\ statement.is_from
        copyIntoCStoreTable ==
            isCopyFrom /\ CStoreTable(cat, RangeVarGetRelid(cat, statement.relation))
        copyCalls == IF isCopyFrom THEN <<"RangeVarGetRelid", "CStoreTable">> ELSE <<>>
        drop == IF statement.tag = T_DropStmt /\ statement.removeType = OBJECT_FOREIGN_TABLE
                THEN DropObjects(statement.objects, cat, optionList, NoDrop)
                ELSE NoDrop
        copy == CopyOpen(statement.attlist, statement.source, superuser, optionList, ws, d)
        command == IF previousHook THEN "PreviousProcessUtilityHook"
                   ELSE "standard_ProcessUtility"
        deleted == DeleteTableFiles(drop.tableFilename, CStoreGetOptions(optionList).filename,
                                    d, fs, footerUnlinkFails, dataUnlinkFails)
    IN  IF copyIntoCStoreTable
        THEN UtilityOutcome(copy.error, copyCalls \o <<"CopyIntoCStoreTable">> \o copy.calls,
                            copy.writeState, copy.disk, fs, cat, TRUE)
        ELSE IF commandFails /\ ~drop.dropCStoreTable
        THEN UtilityOutcome("utility command failed", copyCalls \o drop.calls \o <<command>>,
                            ws, d, fs, cat, FALSE)
        ELSE IF commandFails
        THEN [error |-> "utility command failed",
              calls |-> drop.calls \o <<"DeleteCStoreTableFiles", command>>,
              writeState |-> ws, disk |-> deleted.disk, fileSystem |-> deleted.fileSystem,
              catalog |-> cat, copyIntoCStoreTable |-> FALSE,
              unlinks |-> deleted.unlinks, warnings |-> deleted.warnings]
        ELSE IF ~drop.dropCStoreTable
        THEN UtilityOutcome("", copyCalls \o drop.calls \o <<command>>, ws, d, fs,
                            CommandCatalog(statement, cat), FALSE)
        ELSE [error |-> "",
              calls |-> drop.calls \o <<"DeleteCStoreTableFiles", command>>,
              writeState |-> ws, disk |-> deleted.disk, fileSystem |-> deleted.fileSystem,
              catalog |-> CommandCatalog(statement, cat), copyIntoCStoreTable |-> FALSE,
              unlinks |-> deleted.unlinks, warnings |-> deleted.warnings]

\* CStoreProcessUtility, for a COPY into a cstore table up to the row loop of
\* CopyIntoCStoreTable: the error raised, the calls made, the write state,
\* the files and the catalog afterwards
ProcessUtility(statement, superuser, commandFails, footerUnlinkFails, dataUnlinkFails, previousHook, cat, fs, optionList, ws, d) ==
    LET isCopyFrom == statement.tag = T_CopyStmt /\ statement.is_from
        copyIntoCStoreTable ==
            isCopyFrom /\ CStoreTable(cat, RangeVarGetRelid(cat, statement.relation))
        copyCalls == IF isCopyFrom THEN <<"RangeVarGetRelid", "CStoreTable">> ELSE <<>>
        drop == IF statement.tag = T_DropStmt /\ statement.removeType = OBJECT_FOREIGN_TABLE
                THEN DropObjects(statement.objects, cat, optionList, NoDrop)
                ELSE NoDrop
        copy == CopyOpen(statement.attlist, statement.source, superuser, optionList, ws, d)
        command == IF previousHook THEN "PreviousProcessUtilityHook"
                   ELSE "standard_ProcessUtility"
        deleted == DeleteTableFiles(drop.tableFilename, CStoreGetOptions(optionList).filename,
                                    d, fs, footerUnlinkFails, dataUnlinkFails)
    IN  IF copyIntoCStoreTable
        THEN UtilityOutcome(copy.error, copyCalls \o <<"CopyIntoCStoreTable">> \o copy.calls,
                            copy.writeState, copy.disk, fs, cat, TRUE)
        ELSE IF commandFails
        THEN UtilityOutcome("utility command failed", copyCalls \o drop.calls \o <<command>>,
                            ws, d, fs, cat, FALSE)
        ELSE IF ~drop.dropCStoreTable
        THEN UtilityOutcome("", copyCalls \o drop.calls \o <<command>>, ws, d, fs,
                            CommandCatalog(statement, cat), FALSE)
        ELSE [error |-> "",
              calls |-> drop.calls \o <<command, "DeleteCStoreTableFiles">>,
              writeState |-> ws, disk |-> deleted.disk, fileSystem |-> deleted.fileSystem,
              catalog |-> CommandCatalog(statement, cat), copyIntoCStoreTable |-> FALSE,
              unlinks |-> deleted.unlinks, warnings |-> deleted.warnings]

\* the effects of CStoreProcessUtility on the state
UtilityEffects(statement, superuser, outcome) ==
    /\ lastCommand' = [name |-> "CStoreProcessUtility",
                       args |-> <<statement.tag, statement.is_from,
                                  outcome.copyIntoCStoreTable, statement.attlist,
                                  statement.source, superuser>>,
                       statement |-> statement,
                       unlinks |-> outcome.unlinks,
                       warnings |-> outcome.warnings]
    /\ lastError' = outcome.error
    /\ calls' = outcome.calls
    /\ writeState' = outcome.writeState
    /\ disk' = outcome.disk
    /\ fileSystem' = outcome.fileSystem
    /\ catalog' = outcome.catalog
    /\ copyState' = [active |-> outcome.copyIntoCStoreTable /\ outcome.error = "",
                     processedRowCount |-> 0,
                     copyCount |-> copyState.copyCount + 1, delivered |-> <<>>,
                     completionTag |-> <<>>]

CStoreProcessUtility(statement, superuser, commandFails, footerUnlinkFails, dataUnlinkFails, maxStatements) ==
    /\ Idle
    /\ copyState.copyCount < maxStatements
    /\ commandFails \/ CommandCanSucceed(statement, catalog)
    /\ UtilityEffects(statement, superuser,
                      ProcessUtility(statement, superuser, commandFails, footerUnlinkFails,
                                     dataUnlinkFails, PreviousProcessUtilityHook, catalog,
                                     fileSystem, tableOptions, writeState, disk))
    /\ UNCHANGED lockVars
    /\ UNCHANGED <<PreviousProcessUtilityHook, sampleState>>
    /\ UNCHANGED <<tupleDescriptor, readState, written, returned, readFinished, tableOptions,
                   scanState>>

\* <<statement, superuser>> of the COPY statements
UtilityStatements ==
    { <<CopyStatement(TRUE, CSTORE_TABLE, FALSE, "stdin"), FALSE>>,
      <<CopyStatement(TRUE, CSTORE_TABLE, FALSE, "file"), TRUE>>,
      <<CopyStatement(TRUE, CSTORE_TABLE, TRUE, "stdin"), TRUE>>,
      <<CopyStatement(TRUE, CSTORE_TABLE, TRUE, "file"), FALSE>>,
      <<CopyStatement(TRUE, CSTORE_TABLE, FALSE, "file"), FALSE>>,
      <<CopyStatement(TRUE, CSTORE_TABLE, FALSE, "program"), FALSE>>,
      <<CopyStatement(FALSE, CSTORE_TABLE, FALSE, "stdin"), FALSE>>,
      <<CopyStatement(TRUE, "heap_table", FALSE, "stdin"), FALSE>> }

NextUtility ==
    \/ \E statement \in UtilityStatements :
          CStoreProcessUtility(statement[1], statement[2], FALSE, FALSE, FALSE,
                               MaxUtilityStatements)
    \/ \E row \in RowSet(tupleDescriptor.natts, MaxValue) : CopyIntoCStoreTableRow(row, MaxCopyRows)
    \/ CopyIntoCStoreTableEnd

SpecUtility == Init /\ [][NextUtility]_vars

\* the rows a write session has buffered for its current stripe, block by block
RECURSIVE BufferedRowsFrom(_, _)
BufferedRowsFrom(stripeData, b) ==
    IF stripeData.columnCount = 0 \/ b > Len(stripeData.columnDataArray[1]) THEN <<>>
    ELSE [i \in 1..Len(stripeData.columnDataArray[1][b].valueArray) |->
             [columnValues |-> [c \in 1..stripeData.columnCount |->
                                   stripeData.columnDataArray[c][b].valueArray[i]],
              columnNulls |-> [c \in 1..stripeData.columnCount |->
                                  ~stripeData.columnDataArray[c][b].existsArray[i]]]]
         \o BufferedRowsFrom(stripeData, b + 1)

\* the rows of the stripes the footer file lists, in footer order
RECURSIVE FileRowsFrom(_, _)
FileRowsFrom(d, k) ==
    IF ~d.footerFile.exists \/ k > Len(d.footerFile.tableFooter.stripeMetadataList) THEN <<>>
    ELSE StripeRows(d.dataFile.stripes[
                        StripeAt(d, d.footerFile.tableFooter.stripeMetadataList[k].fileOffset)
                    ].stripe)
         \o FileRowsFrom(d, k + 1)

CountOf(call, callList) == Cardinality({ i \in 1..Len(callList) : callList[i] = call })

\* C19: COPY into a cstore table writes each source row once and in order: it
\* begins one write session; after every round of the row loop the session
\* holds exactly the rows NextCopyFrom has delivered, in delivery order, and
\* the row count is their number; at the first end-of-input it calls
\* CStoreEndWrite once, after which the file holds the rows it held before
\* followed by the delivered rows, and the number returned is the number of
\* rows written (0 for an empty source).
CopyWritesEachRowOnce ==
    [][/\ (~copyState.active /\ copyState'.active) =>
             /\ CountOf("CStoreBeginWrite", calls') = 1
             /\ writeState'.open
       /\ copyState'.active =>
             /\ writeState'.open
             /\ copyState'.processedRowCount = Len(copyState'.delivered)
             /\ BufferedRowsFrom(writeState'.stripeData, 1) = copyState'.delivered
             /\ disk'.footerFile = disk.footerFile
       /\ (copyState.active /\ ~copyState'.active) =>
             /\ CountOf("CStoreEndWrite", calls') = 1
             /\ ~writeState'.open
             /\ disk'.footerWriteCount = disk.footerWriteCount + 1
             /\ copyState'.completionTag = <<"COPY", Len(copyState.delivered)>>
             /\ FileRowsFrom(disk', 1) = FileRowsFrom(disk, 1) \o copyState.delivered]_vars

\* a second COPY has ended after two rows, appended to the row of the first
CopyWritesEachRowOnceWitness ==
    /\ copyState.copyCount = 2
    /\ ~copyState.active
    /\ copyState.completionTag = <<"COPY", 2>>
    /\ Len(copyState.delivered) = 2
    /\ copyState.delivered[1] # copyState.delivered[2]
    /\ Len(FileRowsFrom(disk, 1)) = 3
    /\ disk.footerWriteCount = 2

\* a COPY statement that fails one of the checks CopyIntoCStoreTable makes
\* before it opens the relation
PreconditionFailure(args) ==
    /\ args[2] /\ args[3]
    /\ args[4] \/ (args[5] # "stdin" /\ ~args[6])

UtilityStep == lastCommand'.name = "CStoreProcessUtility"
               /\ copyState'.copyCount = copyState.copyCount + 1

\* what a failed precondition leaves alone: no relation opened, no write
\* session begun, no row written, no file changed
PreconditionFailureEffects ==
    /\ ErrorCode(lastError') = IF lastCommand'.args[4] THEN "ERRCODE_FEATURE_NOT_SUPPORTED"
                               ELSE "ERRCODE_INSUFFICIENT_PRIVILEGE"
    /\ Range(calls') \cap {"heap_openrv", "heap_open", "CStoreBeginWrite", "CStoreWriteRow",
                           "BeginCopyFrom"} = {}
    /\ ~copyState'.active
    /\ writeState' = writeState
    /\ ~writeState'.open
    /\ written' = written
    /\ disk' = disk

\* C20 as stated: a COPY FROM with a column list raises feature-not-supported
\* and a COPY FROM a file or program by a non-superuser raises
\* insufficient-privilege, before the relation is opened or locked in any mode
\* and before a write session is begun; no row is written, no file changes.
CopyPreconditionBeforeAnyLock ==
    [][(UtilityStep /\ PreconditionFailure(lastCommand'.args)) =>
          /\ PreconditionFailureEffects
          /\ \A i \in 1..Len(calls') : CallLockMode(calls'[i]) = ""]_vars

\* C20: a COPY FROM with a column list raises feature-not-supported and a
\* COPY FROM a file or program by a non-superuser raises
\* insufficient-privilege, before the relation is opened, before ExclusiveLock
\* is requested and before a write session is begun; no row is written and no
\* file changes.  The relation is locked at that point, in AccessShareLock
\* mode, by the RangeVarGetRelid call with which CStoreProcessUtility has
\* identified the table.
CopyPreconditionBeforeOpen ==
    [][(UtilityStep /\ PreconditionFailure(lastCommand'.args)) =>
          /\ PreconditionFailureEffects
          /\ calls' = <<"RangeVarGetRelid", "CStoreTable", "CopyIntoCStoreTable">>
          /\ \A i \in 1..Len(calls') : CallLockMode(calls'[i]) \in {"", AccessShareLock}]_vars

\* a COPY FROM a file by a non-superuser was refused on a table that holds a
\* row of an earlier COPY
CopyPreconditionBeforeOpenWitness ==
    /\ lastCommand.name = "CStoreProcessUtility"
    /\ lastCommand.args = <<"T_CopyStmt", TRUE, TRUE, FALSE, "file", FALSE>>
    /\ lastError = "must be superuser to COPY to or from a file"
    /\ copyState.copyCount = 2
    /\ Len(written) = 1
    /\ disk.footerFile.exists
    /\ calls = <<"RangeVarGetRelid", "CStoreTable", "CopyIntoCStoreTable">>

(***************************************************************************)
(* Projection and stripe ownership of a scan.                              *)
(***************************************************************************)
\* column c of the row is null: value zero, null flag set
ColumnIsNull(row, c) == row.columnValues[c] = 0 /\ row.columnNulls[c]

\* C17: in every row a scan returns, each column that is not in the projected
\* column list is null (value zero, null flag set); the stripe the session
\* has decoded holds no value or exists stream of a column that is not
\* projected; and a scan with an empty projection that has come to the end of
\* the data has returned one row, all null, per stored row.
ProjectionNullsTheRest ==
    (scanState.begun /\ scanState.fdw_state) =>
       LET projected == Range(scanState.columnList)
           others == (1..tupleDescriptor.natts) \ projected
       IN  /\ readState.projectedColumnList = scanState.columnList
           /\ \A i \in 1..Len(returned) : \A c \in others : ColumnIsNull(returned[i], c)
           /\ \A c \in others : ColumnIsNull(scanState.tuple, c)
           /\ readState.hasStripeData =>
                 \A c \in others : readState.stripeData.columnDataArray[c] = <<>>
           /\ (projected = {} /\ readFinished) =>
                 /\ Len(returned) = Len(FileRowsFrom(disk, 1))
                 /\ \A i \in 1..Len(returned) : returned[i] = NullRow(tupleDescriptor.natts)

\* a scan projecting the first of two columns has returned the three rows of
\* a file of two stripes, the first of which was written with a value in
\* both columns
ProjectionNullsTheRestWitness ==
    /\ scanState.begun /\ scanState.fdw_state
    /\ tupleDescriptor.natts = 2
    /\ scanState.columnList = <<1>>
    /\ readFinished
    /\ Len(returned) = 3
    /\ Len(written) = 3
    /\ ~written[1].columnNulls[1] /\ ~written[1].columnNulls[2]
    /\ returned[1].columnValues[1] = written[1].columnValues[1]
    /\ returned[1].columnNulls[2]
    /\ Len(disk.dataFile.stripes) = 2

\* the decoded data a read session holds is that of the one stripe it has
\* loaded last, and nothing once that stripe's rows are consumed
HoldsOneStripe(rs, d) ==
    /\ rs.readStripeCount \in 0..Len(rs.tableFooter.stripeMetadataList)
    /\ rs.hasStripeData =>
          /\ rs.readStripeCount >= 1
          /\ rs.stripeData = LoadFilteredStripe(
                                 d, rs.tableFooter.stripeMetadataList[rs.readStripeCount],
                                 rs.projectedColumnList, rs.whereClauseList)
          /\ rs.stripeReadRowCount < rs.stripeData.rowCount
    /\ ~rs.hasStripeData => rs.stripeData = NoStripeData

\* C18: a read session holds at most one decoded stripe: whenever it holds
\* decoded data, that data is the filtered content of the single stripe at
\* the session's position in the footer's list, and otherwise it holds none;
\* a call of CStoreReadNextRow moves the position only forward in the
\* footer's list, so each stripe is loaded at most once, and only when the
\* data of the stripe before has been discarded.
OneDecodedStripe ==
    [][/\ readState'.open => HoldsOneStripe(readState', disk')
       /\ (readState.open /\ calls' = <<"ExecClearTuple", "CStoreReadNextRow">>) =>
             /\ readState'.tableFooter = readState.tableFooter
             /\ readState'.readStripeCount >= readState.readStripeCount
             /\ readState'.readStripeCount > readState.readStripeCount =>
                   /\ ~readState.hasStripeData
                   /\ readState.stripeData = NoStripeData
             /\ readState'.readStripeCount = readState.readStripeCount =>
                   \/ ~readState'.hasStripeData
                   \/ readState'.stripeData = readState.stripeData]_vars

\* a scan of a file of two stripes has loaded the second stripe after it had
\* returned the two rows of the first, and has returned and discarded it
OneDecodedStripeWitness ==
    /\ scanState.begun /\ scanState.fdw_state
    /\ readState.open
    /\ readState.readStripeCount = 2
    /\ Len(readState.tableFooter.stripeMetadataList) = 2
    /\ Len(returned) = 3
    /\ ~readState.hasStripeData
    /\ ~readFinished
    /\ calls = <<"ExecClearTuple", "CStoreReadNextRow">>

(***************************************************************************)
(* Every kind of utility statement through the hook, with and without a    *)
(* previously installed hook.                                              *)
(***************************************************************************)
MaxDispatchStatements == 2
MaxDropObjects == 2

\* the names a statement can give: the relations and one that does not exist
RelationNames == DOMAIN Catalog \cup {"missing"}

\* the lists of objects of the DROP statements
DropObjectLists ==
    UNION { [1..n -> RelationNames] : n \in 1..MaxDropObjects }

\* <<statement, superuser>> of the statements of the model
DispatchStatements ==
    { <<CopyStatement(is_from, relation, attlist, "stdin"), TRUE>> :
         is_from \in BOOLEAN, relation \in DOMAIN Catalog, attlist \in BOOLEAN }
    \cup { <<CopyStatement(TRUE, CSTORE_TABLE, FALSE, "file"), FALSE>> }
    \cup { <<DropStatement(OBJECT_FOREIGN_TABLE, objects), TRUE>> :
              objects \in DropObjectLists }
    \cup { <<DropStatement(OBJECT_TABLE, <<relation>>), TRUE>> : relation \in RelationNames }
    \cup { <<OtherStatement, TRUE>> }

InitDispatch ==
    /\ InitTable
    /\ tableOptions = <<>>
    /\ PreviousProcessUtilityHook \in BOOLEAN
    /\ catalog = Catalog
    /\ fileSystem = CatalogFiles
    /\ sampleState = NoSample

NextDispatch ==
    \/ \E statement \in DispatchStatements, commandFails \in BOOLEAN,
          footerUnlinkFails \in BOOLEAN, dataUnlinkFails \in BOOLEAN :
          CStoreProcessUtility(statement[1], statement[2], commandFails, footerUnlinkFails,
                               dataUnlinkFails, MaxDispatchStatements)
    \/ \E row \in RowSet(tupleDescriptor.natts, MaxValue) : CopyIntoCStoreTableRow(row, 1)
    \/ CopyIntoCStoreTableEnd

SpecDispatch == InitDispatch /\ [][NextDispatch]_vars

\* the three ways a statement can be executed
Executors == {"CopyIntoCStoreTable", "PreviousProcessUtilityHook", "standard_ProcessUtility"}

\* the statement is COPY ... FROM and its target is a foreign table of the
\* cstore_fdw wrapper
CopyFromCStoreTable(statement, cat) ==
    /\ statement.tag = T_CopyStmt
    /\ statement.is_from
    /\ statement.relation \in DOMAIN cat
    /\ cat[statement.relation].relkind = "f"
    /\ cat[statement.relation].fdwname = "cstore_fdw"

AllFiles(d, fs, optionList) ==
    fs \cup (IF d.dataFile.exists THEN {CStoreGetOptions(optionList).filename} ELSE {})
       \cup (IF d.footerFile.exists
             THEN {FooterFilenameOf(CStoreGetOptions(optionList).filename)} ELSE {})

\* the cstore tables a DROP FOREIGN TABLE statement names
DroppedCStoreTables(statement, cat) ==
    IF statement.tag = T_DropStmt /\ statement.removeType = OBJECT_FOREIGN_TABLE
    THEN { relation \in Range(statement.objects) \cap DOMAIN cat :
              cat[relation].relkind = "f" /\ cat[relation].fdwname = "cstore_fdw" }
    ELSE {}

\* the position of the first call of that name, 0 when it was not made
FirstCall(callList, call) ==
    IF call \in Range(callList)
    THEN SetMin({ i \in 1..Len(callList) : callList[i] = call }) ELSE 0

\* the call that ran the utility command
CommandCall(callList) ==
    IF "PreviousProcessUtilityHook" \in Range(callList)
    THEN FirstCall(callList, "PreviousProcessUtilityHook")
    ELSE FirstCall(callList, "standard_ProcessUtility")

\* C22: a file is removed only by a DROP FOREIGN TABLE that names a cstore
\* table, and only after the previous or standard utility command has
\* returned without an error: the file path is resolved (CStoreGetOptions)
\* before the command runs and DeleteCStoreTableFiles is called after it; if
\* the command raises an error no unlink is attempted and every file stays;
\* a statement that is not a DROP FOREIGN TABLE of a cstore table attempts
\* no unlink and removes no file.
DeleteOnlyAfterDrop ==
    [][LET before == AllFiles(disk, fileSystem, tableOptions)
           after == AllFiles(disk', fileSystem', tableOptions')
           dropped == DroppedCStoreTables(lastCommand'.statement, catalog)
       IN  /\ ~(before \subseteq after) => UtilityStep
           /\ UtilityStep =>
                 /\ dropped # {} =>
                       /\ FirstCall(calls', "CStoreGetOptions") > 0
                       /\ FirstCall(calls', "CStoreGetOptions") < CommandCall(calls')
                 /\ "DeleteCStoreTableFiles" \in Range(calls') =>
                       /\ dropped # {}
                       /\ lastError' = ""
                       /\ CommandCall(calls') > 0
                       /\ CommandCall(calls') < FirstCall(calls', "DeleteCStoreTableFiles")
                       /\ dropped \cap DOMAIN catalog' = {}
                 /\ "DeleteCStoreTableFiles" \notin Range(calls') =>
                       /\ lastCommand'.unlinks = <<>>
                       /\ before \subseteq after
                 /\ lastError' # "" =>
                       /\ "DeleteCStoreTableFiles" \notin Range(calls')
                       /\ catalog' = catalog
                 /\ dropped = {} => "DeleteCStoreTableFiles" \notin Range(calls')]_vars

\* a DROP FOREIGN TABLE of a cstore table has failed in the utility command:
\* the table is still there, and so are its two files
DeleteOnlyAfterDropWitness ==
    /\ lastCommand.name = "CStoreProcessUtility"
    /\ lastCommand.statement = DropStatement(OBJECT_FOREIGN_TABLE, <<"cstore_a">>)
    /\ lastError = "utility command failed"
    /\ "cstore_a" \in DOMAIN catalog
    /\ {<<"/", "a">>, FooterFilenameOf(<<"/", "a">>)} \subseteq fileSystem
    /\ lastCommand.unlinks = <<>>
    /\ "CStoreGetOptions" \in Range(calls)

\* the name of the data file of a cstore table
RelationFilename(cat, relation, optionList) ==
    CStoreGetOptions(RelationOptions(cat, relation, optionList)).filename

\* C23 as stated: after a successful DROP FOREIGN TABLE statement, the
\* deletion of the data file and of the footer file has been attempted for
\* each table the statement names that is a cstore table.
EveryDroppedTableLosesFiles ==
    [][(UtilityStep /\ lastError' = "") =>
          \A relation \in DroppedCStoreTables(lastCommand'.statement, catalog) :
             /\ <<"unlink", RelationFilename(catalog, relation, tableOptions)>>
                   \in Range(lastCommand'.unlinks)
             /\ <<"unlink", FooterFilenameOf(RelationFilename(catalog, relation, tableOptions))>>
                   \in Range(lastCommand'.unlinks)]_vars

(***************************************************************************)
(* cstore_fdw_validator on the options of a command.                       *)
(***************************************************************************)
MaxValidatorOptions == 2

ForeignTableRelationId == "ForeignTableRelationId"
ForeignServerRelationId == "ForeignServerRelationId"
ForeignDataWrapperRelationId == "ForeignDataWrapperRelationId"
UserMappingRelationId == "UserMappingRelationId"

\* ValidOptionArray: the option names with the context each is valid in
ValidOptionArray ==
    << [optionName |-> OPTION_NAME_FILENAME, optionContextId |-> ForeignTableRelationId],
       [optionName |-> OPTION_NAME_COMPRESSION_TYPE, optionContextId |-> ForeignTableRelationId],
       [optionName |-> OPTION_NAME_STRIPE_ROW_COUNT, optionContextId |-> ForeignTableRelationId],
       [optionName |-> OPTION_NAME_BLOCK_ROW_COUNT, optionContextId |-> ForeignTableRelationId] >>

\* the inner loop of the validator matching the name in every context
OptionValidInAnyContext(optionName, optionContextId) ==
    \E optionIndex \in 1..Len(ValidOptionArray) :
        optionName = ValidOptionArray[optionIndex].optionName

\* the inner loop of the validator: the name is in ValidOptionArray with this context
OptionValid(optionName, optionContextId) ==
    \E optionIndex \in 1..Len(ValidOptionArray) :
        /\ optionContextId = ValidOptionArray[optionIndex].optionContextId
        /\ optionName = ValidOptionArray[optionIndex].optionName

\* the value the validator's loop has kept for a name when it ends: that of
\* the last option of the name, or NULL
LastOptionValue(optionList, optionName) ==
    LET found == { i \in 1..Len(optionList) : optionList[i].defname = optionName }
    IN  IF found = {} THEN NULLPTR ELSE CString(optionList[SetMax(found)].arg)

\* cstore_fdw_validator: the error it raises ("" for none), the option the
\* error names, and the calls it makes
Validator(optionList, optionContextId) ==
    LET invalid == { i \in 1..Len(optionList) :
                        ~OptionValid(optionList[i].defname, optionContextId) }
        error == ValidateForeignTableOptions(
                     LastOptionValue(optionList, OPTION_NAME_FILENAME),
                     LastOptionValue(optionList, OPTION_NAME_COMPRESSION_TYPE),
                     LastOptionValue(optionList, OPTION_NAME_STRIPE_ROW_COUNT),
                     LastOptionValue(optionList, OPTION_NAME_BLOCK_ROW_COUNT))
    IN  IF invalid # {}
        THEN [error |-> "invalid option", errcode |-> "ERRCODE_FDW_INVALID_OPTION_NAME",
              optionName |-> optionList[SetMin(invalid)].defname,
              calls |-> <<"untransformRelOptions", "OptionNamesString">>]
        ELSE IF optionContextId = ForeignTableRelationId
        THEN [error |-> error, errcode |-> "", optionName |-> "",
              calls |-> <<"untransformRelOptions", "ValidateForeignTableOptions">>]
        ELSE [error |-> "", errcode |-> "", optionName |-> "",
              calls |-> <<"untransformRelOptions">>]

cstore_fdw_validator(optionList, optionContextId) ==
    /\ Idle
    /\ LET outcome == Validator(optionList, optionContextId)
       IN  /\ lastCommand' = [name |-> "cstore_fdw_validator",
                              args |-> <<optionList, optionContextId>>,
                              errcode |-> outcome.errcode,
                              optionName |-> outcome.optionName]
           /\ lastError' = outcome.error
           /\ calls' = outcome.calls
    /\ UNCHANGED lockVars
    /\ UNCHANGED utilityVars
    /\ UNCHANGED <<coreVars, tableOptions, copyState, scanState>>

\* the options the commands give: each name with a value that is accepted and
\* one that is not, and a name that is no option
ValidatorOptions ==
    { [defname |-> OPTION_NAME_FILENAME, arg |-> <<"/", "t">>],
      [defname |-> OPTION_NAME_COMPRESSION_TYPE, arg |-> COMPRESSION_STRING_PG_LZ],
      [defname |-> OPTION_NAME_COMPRESSION_TYPE, arg |-> <<"z", "i", "p">>],
      [defname |-> OPTION_NAME_STRIPE_ROW_COUNT, arg |-> IntText(STRIPE_ROW_COUNT_MINIMUM)],
      [defname |-> OPTION_NAME_STRIPE_ROW_COUNT, arg |-> IntText(STRIPE_ROW_COUNT_MINIMUM - 1)],
      [defname |-> OPTION_NAME_BLOCK_ROW_COUNT, arg |-> IntText(BLOCK_ROW_COUNT_MAXIMUM)],
      [defname |-> OPTION_NAME_BLOCK_ROW_COUNT, arg |-> IntText(BLOCK_ROW_COUNT_MAXIMUM + 1)],
      [defname |-> "file_name", arg |-> <<"/", "t">>],
      [defname |-> "host", arg |-> <<"h">>] }

ValidatorOptionLists ==
    UNION { [1..n -> ValidatorOptions] : n \in 0..MaxValidatorOptions }

OptionContextIds ==
    {ForeignTableRelationId, ForeignServerRelationId, ForeignDataWrapperRelationId,
     UserMappingRelationId}

NextValidator ==
    \E optionList \in ValidatorOptionLists, optionContextId \in OptionContextIds :
        cstore_fdw_validator(optionList, optionContextId)

SpecValidator == Init /\ [][NextValidator]_vars

\* the values of the model's options that the range checks reject
RejectedValues ==
    { <<"z", "i", "p">>, <<"9", "9", "9">>, <<"1", "0", "0", "0", "0", "1">> }

\* C24: in the foreign-table context cstore_fdw_validator raises the
\* invalid-option-name error for the first option of the list whose name is
\* none of filename, compression, stripe_row_count, block_row_count; in the
\* contexts of a wrapper, a server and a user mapping it raises it for the
\* first option, whatever its name; it checks option values only in the
\* foreign-table context and only when every name of the list was accepted.
OptionNamesPerContext ==
    lastCommand.name = "cstore_fdw_validator" =>
       LET optionList == lastCommand.args[1]
           optionContextId == lastCommand.args[2]
           names == IF optionContextId = "ForeignTableRelationId"
                    THEN {"filename", "compression", "stripe_row_count", "block_row_count"}
                    ELSE {}
           unknown == { i \in 1..Len(optionList) : optionList[i].defname \notin names }
           valuesChecked == "ValidateForeignTableOptions" \in Range(calls)
       IN  /\ unknown # {} =>
                 /\ lastError = "invalid option"
                 /\ lastCommand.errcode = "ERRCODE_FDW_INVALID_OPTION_NAME"
                 /\ lastCommand.optionName = optionList[SetMin(unknown)].defname
           /\ unknown = {} => lastError # "invalid option"
           /\ valuesChecked <=> (optionContextId = "ForeignTableRelationId" /\ unknown = {})
           /\ ~valuesChecked => lastError \in {"", "invalid option"}
           /\ valuesChecked =>
                 /\ lastError \in OptionErrors \cup {""}
                 /\ (\A i \in 1..Len(optionList) : optionList[i].arg \notin RejectedValues)
                       => lastError = ""

\* a list whose first option has a value out of range and whose second has a
\* name that is no option was rejected for the name
OptionNamesPerContextWitness ==
    /\ lastCommand.name = "cstore_fdw_validator"
    /\ lastCommand.args[2] = "ForeignTableRelationId"
    /\ Len(lastCommand.args[1]) = 2
    /\ lastCommand.args[1][1] = [defname |-> "stripe_row_count", arg |-> <<"9", "9", "9">>]
    /\ lastCommand.args[1][2].defname = "file_name"
    /\ lastError = "invalid option"
    /\ lastCommand.optionName = "file_name"
    /\ "ValidateForeignTableOptions" \notin Range(calls)

(***************************************************************************)
(* The options CStoreGetOptions resolves, for option lists with and        *)
(* without a filename.                                                     *)
(***************************************************************************)
\* the option lists of TableOptionLists, and those with a filename added
ResolvedOptionLists ==
    TableOptionLists
    \cup { <<[defname |-> OPTION_NAME_FILENAME, arg |-> <<"/", "t">>]>> \o optionList :
              optionList \in { OptionList(CString(c), CString(IntText(s)), CString(IntText(b))) :
                                  c \in {COMPRESSION_STRING_LZ4},
                                  s \in {STRIPE_ROW_COUNT_MINIMUM, STRIPE_ROW_COUNT_MAXIMUM + 1},
                                  b \in {BLOCK_ROW_COUNT_MINIMUM - 1, BLOCK_ROW_COUNT_MAXIMUM} }
                             \cup {<<>>} }

InitOptions ==
    /\ InitCore
    /\ tableOptions \in ResolvedOptionLists

NextOptions ==
    \/ \E statement \in CopyStatements :
            CopyIntoCStoreTableBegin(statement[1], statement[2], statement[3], MaxCopyCommands)
    \/ \E row \in RowSet(tupleDescriptor.natts, MaxValue) : CopyIntoCStoreTableRow(row, MaxCopyRows)
    \/ CopyIntoCStoreTableEnd
    \/ \E isCStore \in BOOLEAN, dataStatFails \in BOOLEAN, footerStatFails \in BOOLEAN :
          cstore_table_size(isCStore, dataStatFails, footerStatFails)

SpecOptions == InitOptions /\ [][NextOptions]_vars

\* the value an option resolves to: the number the table gives, or the default
ResolvedNumber(optionName, resolved, default) ==
    IF Given(optionName) = {} THEN resolved = default
    ELSE \E v \in Given(optionName) : v \in NumberTexts({resolved})

\* C25: CStoreGetOptions takes for each option the value the table gives and
\* otherwise the default (compression none, stripe row count 150000, block
\* row count 10000, the file path $PGDATA/cstore_fdw/{databaseOid}/
\* {relfilenode}); every option set it returns without an error has a stripe
\* row count from 1000 to 10000000, a block row count from 1000 to 100000,
\* one of the four compression kinds and a filename; a command that resolves
\* the options raises an option error exactly when CStoreGetOptions returns
\* none, and a write session begun by COPY works with the returned values.
ResolvedOptionsValid ==
    LET options == CStoreGetOptions(tableOptions)
    IN  /\ options.error = "" =>
              /\ options.stripeRowCount >= 1000 /\ options.stripeRowCount <= 10000000
              /\ options.blockRowCount >= 1000 /\ options.blockRowCount <= 100000
              /\ options.compressionType \in {0, 1, 2, 3}
              /\ ResolvedNumber("stripe_row_count", options.stripeRowCount, 150000)
              /\ ResolvedNumber("block_row_count", options.blockRowCount, 10000)
              /\ IF Given("compression") = {} THEN options.compressionType = 0
                 ELSE \E v \in Given("compression") :
                         v \in FourNames /\ options.compressionType = KindOf(v)
              /\ IF Given("filename") = {}
                 THEN options.filename = <<"$PGDATA", "/", "cstore_fdw", "/", "databaseOid",
                                           "/", "relfilenode">>
                 ELSE options.filename \in Given("filename")
              /\ Len(options.filename) > 0
        /\ OptionsResolved => ((lastError \in OptionErrors) <=> (options.error # ""))
        /\ (copyState.active /\ writeState.open) =>
              /\ options.error = ""
              /\ writeState.stripeMaxRowCount = options.stripeRowCount
              /\ writeState.blockRowCount = options.blockRowCount
              /\ writeState.compressionType = options.compressionType

\* COPY has begun a write session on a table that gives a filename, lz4, the
\* least stripe row count and the greatest block row count
ResolvedOptionsValidWitness ==
    /\ copyState.active
    /\ writeState.open
    /\ Given("filename") = {<<"/", "t">>}
    /\ CStoreGetOptions(tableOptions).filename = <<"/", "t">>
    /\ writeState.stripeMaxRowCount = 1000
    /\ writeState.blockRowCount = 100000
    /\ writeState.compressionType = COMPRESSION_LZ4

\* C26: a call of CStoreBeginForeignScan with EXEC_FLAG_EXPLAIN_ONLY makes no
\* call, raises no error, opens no read session, leaves the files and the
\* read state as they are and leaves fdw_state unset; the call of
\* CStoreEndForeignScan that follows makes no call and leaves the read state
\* as it is.
ExplainOnlyOpensNothing ==
    [][ /\ ( /\ ~scanState.begun
             /\ scanState'.begun
             /\ lastCommand'.args = <<"EXEC_FLAG_EXPLAIN_ONLY">> )
           => /\ calls' = <<>>
              /\ lastError' = ""
              /\ readState' = readState
              /\ ~readState'.open
              /\ disk' = disk
              /\ ~scanState'.fdw_state
        /\ ( /\ scanState.begun
             /\ ~scanState'.begun
             /\ lastCommand.name = "CStoreBeginForeignScan"
             /\ lastCommand.args = <<"EXEC_FLAG_EXPLAIN_ONLY">> )
           => /\ calls' = <<>>
              /\ readState' = readState
              /\ ~readState'.open
              /\ disk' = disk ]_vars

\* a scan of a table with files was begun for EXPLAIN and then ended
ExplainOnlyOpensNothingWitness ==
    /\ lastCommand.name = "CStoreBeginForeignScan"
    /\ lastCommand.args = <<"EXEC_FLAG_EXPLAIN_ONLY">>
    /\ lastError = ""
    /\ ~scanState.begun
    /\ calls = <<>>
    /\ disk.footerFile.exists
    /\ Len(disk.dataFile.stripes) > 0
    /\ ~readState.open

\* the read sessions a step opens and closes
SessionsOpened == IF lastError' = "" THEN CountOf("CStoreBeginRead", calls') ELSE 0
SessionsClosed == CountOf("CStoreEndRead", calls')

\* C27: the read sessions of a scan are balanced. The scan state holds a
\* session exactly when one is open; CStoreBeginForeignScan opens one session
\* when none is open and closes none; CStoreReScanForeignScan closes the
\* open session once and then opens one; CStoreIterateForeignScan opens and
\* closes none; CStoreEndForeignScan closes the open session once, and none
\* when none is open; no step closes a session that is not open, and after
\* the end of the scan no session is open.
ReadSessionsBalanced ==
    [][ /\ scanState.fdw_state <=> readState.open
        /\ scanState'.fdw_state <=> readState'.open
        /\ ~scanState'.begun => ~readState'.open
        /\ SessionsClosed <= 1
        /\ SessionsOpened <= 1
        /\ SessionsClosed = 1 => readState.open
        /\ SessionsOpened = 1 => (~readState.open \/ SessionsClosed = 1) /\ readState'.open
        /\ (IF readState.open THEN 1 ELSE 0) + SessionsOpened - SessionsClosed
              = (IF readState'.open THEN 1 ELSE 0)
        /\ (~scanState.begun /\ scanState'.begun) => SessionsClosed = 0
        /\ (scanState.begun /\ scanState'.begun /\ scanState'.fdw_state
               /\ SessionsOpened = 0) => readState'.open /\ SessionsClosed = 0
        /\ (scanState.begun /\ ~scanState'.begun /\ lastError' = "")
              => SessionsClosed = (IF readState.open THEN 1 ELSE 0) ]_vars

\* CStoreReScanForeignScan has closed the session of a scan of a table of two
\* stripes and opened the next one, which is the one session open
ReadSessionsBalancedWitness ==
    /\ scanState.begun
    /\ scanState.fdw_state
    /\ readState.open
    /\ lastError = ""
    /\ calls = <<"CStoreEndRead", "CStoreGetOptions", "CStoreBeginRead">>
    /\ returned = <<>>
    /\ Len(disk.dataFile.stripes) = 2

\* the calls CStoreIterateForeignScan makes
IterateCalls == <<"ExecClearTuple", "CStoreReadNextRow">>

\* C28: every call of CStoreIterateForeignScan clears the slot and reads with
\* all column values null; the slot it returns holds a row exactly when
\* CStoreReadNextRow found one, and that row is the one it read; otherwise
\* the slot is empty and all its values are null; after an empty slot every
\* further call on the same session returns an empty slot again.
EndOfDataIsEmptySlot ==
    [][ (scanState.begun /\ scanState.fdw_state /\ calls' = IterateCalls) =>
           LET read == CStoreReadNextRow(readState, disk, NullRow(tupleDescriptor.natts))
           IN  /\ scanState'.tts_isempty <=> ~read.found
               /\ read.found => /\ scanState'.tuple = read.row
                                /\ returned' = Append(returned, read.row)
               /\ ~read.found => /\ scanState'.tuple = NullRow(tupleDescriptor.natts)
                                 /\ returned' = returned
               /\ readFinished => /\ ~read.found
                                  /\ scanState.tts_isempty
                                  /\ scanState'.tts_isempty ]_vars

\* a scan returned the two rows of a file of two stripes and then an empty slot
EndOfDataIsEmptySlotWitness ==
    /\ scanState.begun
    /\ scanState.fdw_state
    /\ calls = IterateCalls
    /\ readFinished
    /\ scanState.tts_isempty
    /\ scanState.tuple = NullRow(tupleDescriptor.natts)
    /\ Len(returned) = 2
    /\ readState.readStripeCount = 2

(***************************************************************************)
(* The column list of a plan: ColumnList on the Vars of the target list    *)
(* and of the restriction clauses.                                         *)
(***************************************************************************)
MaxTargetVars == 2
MaxClauseVars == 1
MaxClauses == 2

\* varattno of a system attribute (the tuple identifier) and of a whole row
SelfItemPointerAttributeNumber == -1
InvalidAttrNumber == 0

\* where the query text names a column: in the target list, in the clauses
TargetLocations == {1}
ClauseLocations == {2, 3}

\* the Vars of a relation of natts columns at these locations
VarSet(natts, locations) ==
    [varattno : {SelfItemPointerAttributeNumber, InvalidAttrNumber} \cup (1..natts),
     location : locations]

\* equal() on two Vars of the relation, which leaves the location out
EqualVars(a, b) == a.varattno = b.varattno

list_member(list, datum) == \E i \in 1..Len(list) : EqualVars(list[i], datum)

RECURSIVE list_union(_, _)
list_union(list1, list2) ==
    IF list2 = <<>> THEN list1
    ELSE list_union(IF list_member(list1, Head(list2)) THEN list1
                    ELSE Append(list1, Head(list2)),
                    Tail(list2))

\* the needed column list: the target list, then the Vars of every clause
RECURSIVE NeededColumnList(_, _)
NeededColumnList(neededColumnList, clauseColumnLists) ==
    IF clauseColumnLists = <<>> THEN neededColumnList
    ELSE NeededColumnList(list_union(neededColumnList, Head(clauseColumnLists)),
                          Tail(clauseColumnLists))

\* the first Var of the list with this varattno, as a list of 0 or 1 Vars
FirstColumn(neededColumnList, columnIndex) ==
    LET found == { i \in 1..Len(neededColumnList) : neededColumnList[i].varattno = columnIndex }
    IN  IF found = {} THEN <<>>
        ELSE <<neededColumnList[CHOOSE i \in found : \A j \in found : i <= j]>>

RECURSIVE ColumnsFrom(_, _, _)
ColumnsFrom(neededColumnList, columnIndex, columnCount) ==
    IF columnIndex > columnCount THEN <<>>
    ELSE FirstColumn(neededColumnList, columnIndex)
         \o ColumnsFrom(neededColumnList, columnIndex + 1, columnCount)

\* ColumnList returning the needed Vars of the columns in the order of the
\* needed list
ColumnListInNeededOrder(reltargetlist, clauseColumnLists, max_attr) ==
    SelectSeq(NeededColumnList(reltargetlist, clauseColumnLists),
              LAMBDA column : column.varattno \in 1..max_attr)

\* ColumnList on the Vars of baserel
ColumnListOfVars(reltargetlist, clauseColumnLists, max_attr) ==
    ColumnsFrom(NeededColumnList(reltargetlist, clauseColumnLists), 1, max_attr)

CStoreGetForeignPlan(reltargetlist, clauseColumnLists) ==
    /\ Idle
    /\ lastCommand' = [name |-> "CStoreGetForeignPlan",
                       args |-> <<reltargetlist, clauseColumnLists>>,
                       fdw_private |-> <<ColumnListOfVars(reltargetlist, clauseColumnLists,
                                                          tupleDescriptor.natts)>>]
    /\ lastError' = ""
    /\ calls' = <<"extract_actual_clauses", "ColumnList", "make_foreignscan">>
    /\ UNCHANGED lockVars
    /\ UNCHANGED utilityVars
    /\ UNCHANGED <<coreVars, tableOptions, copyState, scanState>>

\* the lists of at most n Vars
VarLists(natts, locations, n) == UNION { [1..k -> VarSet(natts, locations)] : k \in 0..n }

\* the target lists: no column twice
TargetLists(natts) ==
    { list \in VarLists(natts, TargetLocations, MaxTargetVars) :
         \A i, j \in 1..Len(list) : EqualVars(list[i], list[j]) => i = j }

\* the Vars pull_var_clause finds in each restriction clause
ClauseColumnLists(natts) ==
    UNION { [1..k -> VarLists(natts, ClauseLocations, MaxClauseVars) \ {<<>>}] : k \in 0..MaxClauses }

NextColumns ==
    \E reltargetlist \in TargetLists(tupleDescriptor.natts),
       clauseColumnLists \in ClauseColumnLists(tupleDescriptor.natts) :
          CStoreGetForeignPlan(reltargetlist, clauseColumnLists)

SpecColumns == Init /\ [][NextColumns]_vars

RECURSIVE Flatten(_)
Flatten(lists) == IF lists = <<>> THEN <<>> ELSE Head(lists) \o Flatten(Tail(lists))

\* C30: the column list of a plan holds exactly one Var for each attribute
\* number from 1 to max_attr that the target list or a restriction clause
\* names and none for any other, in ascending attribute number, and the Var
\* of an attribute is its first occurrence in the target list followed by
\* the clauses; its attribute numbers are those that the scan reads.
ColumnListExactAndOrdered ==
    lastCommand.name = "CStoreGetForeignPlan" =>
        LET columnList == lastCommand.fdw_private[1]
            named == lastCommand.args[1] \o Flatten(lastCommand.args[2])
            max_attr == tupleDescriptor.natts
            first(a) == CHOOSE i \in 1..Len(named) :
                            /\ named[i].varattno = a
                            /\ \A j \in 1..(i - 1) : named[j].varattno # a
        IN  /\ { columnList[k].varattno : k \in 1..Len(columnList) }
                  = { named[i].varattno : i \in 1..Len(named) } \cap (1..max_attr)
            /\ \A k \in 1..Len(columnList) : \A l \in 1..Len(columnList) :
                  k < l => columnList[k].varattno < columnList[l].varattno
            /\ \A k \in 1..Len(columnList) :
                  columnList[k] = named[first(columnList[k].varattno)]
            /\ [k \in 1..Len(columnList) |-> columnList[k].varattno]
                  = ColumnList({ lastCommand.args[1][i].varattno :
                                    i \in 1..Len(lastCommand.args[1]) },
                               [i \in 1..Len(Flatten(lastCommand.args[2])) |->
                                   [column |-> Flatten(lastCommand.args[2])[i].varattno]],
                               max_attr)

\* a plan whose target list names column 2 and the tuple identifier and whose
\* clauses name column 1 twice
ColumnListExactAndOrderedWitness ==
    /\ lastCommand.name = "CStoreGetForeignPlan"
    /\ tupleDescriptor.natts = 2
    /\ lastCommand.args[1] = <<[varattno |-> 2, location |-> 1],
                               [varattno |-> SelfItemPointerAttributeNumber, location |-> 1]>>
    /\ lastCommand.args[2] = << <<[varattno |-> 1, location |-> 3]>>,
                                <<[varattno |-> 1, location |-> 2]>> >>
    /\ lastCommand.fdw_private = << <<[varattno |-> 1, location |-> 3],
                                      [varattno |-> 2, location |-> 1]>> >>

(***************************************************************************)
(* ANALYZE: CStoreAcquireSampleRows scans the table with all columns and   *)
(* keeps a reservoir of targetRowCount rows.                               *)
(***************************************************************************)
MaxSamples == 1
MaxSampleRows == 3
MaxTargetRowCount == 2
MaxRowCountToSkip == 1

\* one round of the loop that did not count the row it only skipped
SampleRowCountingSampled(st, row, S, rowIndex) ==
    IF st.sampleRowCount < st.targetRowCount
    THEN [st EXCEPT !.sampleRows = Append(st.sampleRows, row),
                    !.sampleRowCount = st.sampleRowCount + 1,
                    !.rowCount = st.rowCount + 1]
    ELSE LET rowCountToSkip == IF st.rowCountToSkip < 0 THEN S ELSE st.rowCountToSkip
         IN  IF rowCountToSkip <= 0
             THEN [st EXCEPT !.sampleRows[rowIndex + 1] = row,
                             !.rowCountToSkip = rowCountToSkip - 1,
                             !.rowCount = st.rowCount + 1]
             ELSE [st EXCEPT !.rowCountToSkip = rowCountToSkip - 1]

\* one round of the loop of CStoreAcquireSampleRows on a row that was read: S
\* is what anl_get_next_S returns and rowIndex is targetRowCount *
\* anl_random_fract(), where they are asked for
SampleRow(st, row, S, rowIndex) ==
    IF st.sampleRowCount < st.targetRowCount
    THEN [st EXCEPT !.sampleRows = Append(st.sampleRows, row),
                    !.sampleRowCount = st.sampleRowCount + 1,
                    !.rowCount = st.rowCount + 1]
    ELSE LET rowCountToSkip == IF st.rowCountToSkip < 0 THEN S ELSE st.rowCountToSkip
         IN  [st EXCEPT !.sampleRows = IF rowCountToSkip <= 0
                                       THEN [st.sampleRows EXCEPT ![rowIndex + 1] = row]
                                       ELSE st.sampleRows,
                        !.rowCountToSkip = rowCountToSkip - 1,
                        !.rowCount = st.rowCount + 1]

\* whether the round asks anl_get_next_S, and whether it replaces a row
AsksNextS(st) == st.sampleRowCount >= st.targetRowCount /\ st.rowCountToSkip < 0
ReplacesRow(st, S) ==
    /\ st.sampleRowCount >= st.targetRowCount
    /\ (IF st.rowCountToSkip < 0 THEN S ELSE st.rowCountToSkip) <= 0

\* CStoreAcquireSampleRows up to the loop
AcquireSampleRowsBegin(targetRowCount, maxSamples) ==
    /\ Idle
    /\ ~sampleState.active
    /\ sampleState.sampleCount < maxSamples
    /\ LET outcome == ScanOpen(0, tableOptions, AllColumns(tupleDescriptor), <<>>,
                               readState, disk)
       IN  /\ lastError' = outcome.error
           /\ calls' = <<"CStoreBeginForeignScan">> \o outcome.calls
           /\ readState' = outcome.readState
           /\ scanState' = [NoScan(tupleDescriptor.natts) EXCEPT
                               !.begun = outcome.error = "",
                               !.fdw_state = outcome.fdw_state,
                               !.columnList = AllColumns(tupleDescriptor)]
           /\ sampleState' = [NoSample EXCEPT !.active = outcome.error = "",
                                              !.targetRowCount = targetRowCount,
                                              !.sampleCount = sampleState.sampleCount + 1]
    /\ lastCommand' = [name |-> "CStoreAcquireSampleRows", args |-> <<>>]
    /\ returned' = <<>>
    /\ readFinished' = FALSE
    /\ UNCHANGED lockVars
    /\ UNCHANGED hookVars
    /\ UNCHANGED <<tupleDescriptor, disk, writeState, written, tableOptions, copyState>>

\* one round of the loop in which CStoreIterateForeignScan returns a row
AcquireSampleRowsRow(S, rowIndex) ==
    /\ sampleState.active
    /\ AsksNextS(sampleState) \/ S = 0
    /\ IF ReplacesRow(sampleState, S) THEN rowIndex < sampleState.targetRowCount
       ELSE rowIndex = 0
    /\ LET read == CStoreReadNextRow(readState, disk, NullRow(tupleDescriptor.natts))
       IN  /\ read.found
           /\ readState' = read.readState
           /\ scanState' = [scanState EXCEPT !.tts_isempty = FALSE, !.tuple = read.row]
           /\ returned' = Append(returned, read.row)
           /\ sampleState' = SampleRow(sampleState, read.row, S, rowIndex)
    /\ readFinished' = FALSE
    /\ calls' = <<"CStoreIterateForeignScan">>
    /\ UNCHANGED lockVars
    /\ UNCHANGED hookVars
    /\ UNCHANGED <<tupleDescriptor, disk, writeState, written, tableOptions, lastCommand,
                   lastError, copyState>>

\* the round in which the slot is empty, and the rest of the function
AcquireSampleRowsEnd ==
    /\ sampleState.active
    /\ LET read == CStoreReadNextRow(readState, disk, NullRow(tupleDescriptor.natts))
       IN  /\ ~read.found
           /\ readState' = CStoreEndRead(read.readState)
    /\ scanState' = NoScan(tupleDescriptor.natts)
    /\ sampleState' = [sampleState EXCEPT !.active = FALSE,
                                          !.returned = TRUE,
                                          !.result = sampleState.sampleRowCount,
                                          !.totalRowCount = sampleState.rowCount,
                                          !.totalDeadRowCount = 0]
    /\ readFinished' = TRUE
    /\ calls' = <<"CStoreIterateForeignScan", "CStoreEndForeignScan", "CStoreEndRead">>
    /\ UNCHANGED lockVars
    /\ UNCHANGED hookVars
    /\ UNCHANGED <<tupleDescriptor, disk, writeState, written, returned, tableOptions,
                   lastCommand, lastError, copyState>>

NextAnalyze ==
    \/ \E s \in 1..MaxPruneRows, b \in 1..MaxPruneRows : BeginWrite(COMPRESSION_NONE, s, b)
    \/ \E row \in RowSet(tupleDescriptor.natts, MaxValue) : WriteRow(row, MaxSampleRows)
    \/ EndWrite
    \/ \E targetRowCount \in 1..MaxTargetRowCount :
          AcquireSampleRowsBegin(targetRowCount, MaxSamples)
    \/ \E S \in 0..MaxRowCountToSkip, rowIndex \in 0..(MaxTargetRowCount - 1) :
          AcquireSampleRowsRow(S, rowIndex)
    \/ AcquireSampleRowsEnd

SpecAnalyze == Init /\ [][NextAnalyze]_vars

\* C29: for a file of N rows and a target of T >= 1 rows,
\* CStoreAcquireSampleRows returns min(N, T), sets the total row count to N
\* and the dead row count to 0; every sampled row is a row of the file; as
\* long as no more than T rows are read the sample is the rows read, in
\* order, so that the first min(N, T) rows fill it before any row is
\* replaced; while it runs one scan is open, and it ends that scan once.
SamplingCounts ==
    LET fileRows == FileRowsFrom(disk, 1)
        N == Len(fileRows)
        T == sampleState.targetRowCount
        least(a, b) == IF a < b THEN a ELSE b
        sampled == { sampleState.sampleRows[i] : i \in 1..Len(sampleState.sampleRows) }
    IN  /\ sampleState.active =>
              /\ scanState.begun /\ scanState.fdw_state /\ readState.open
              /\ sampleState.rowCount = Len(returned)
              /\ returned = SubSeq(fileRows, 1, Len(returned))
              /\ sampleState.sampleRowCount = least(sampleState.rowCount, T)
              /\ Len(sampleState.sampleRows) = sampleState.sampleRowCount
              /\ sampleState.rowCount <= T => sampleState.sampleRows = returned
              /\ sampled \subseteq { returned[i] : i \in 1..Len(returned) }
              /\ CountOf("CStoreEndForeignScan", calls) = 0
        /\ sampleState.returned =>
              /\ sampleState.result = least(N, T)
              /\ sampleState.totalRowCount = N
              /\ sampleState.totalDeadRowCount = 0
              /\ Len(sampleState.sampleRows) = sampleState.result
              /\ sampled \subseteq { fileRows[i] : i \in 1..N }
              /\ N <= T => sampleState.sampleRows = fileRows
              /\ ~scanState.begun /\ ~readState.open
              /\ CountOf("CStoreEndForeignScan", calls) = 1
              /\ CountOf("CStoreEndRead", calls) = 1

\* a sample of two rows of a file of three rows in two stripes, the second
\* of which replaced a row of the reservoir
SamplingCountsWitness ==
    /\ sampleState.returned
    /\ sampleState.targetRowCount = 2
    /\ sampleState.result = 2
    /\ sampleState.totalRowCount = 3
    /\ Len(disk.dataFile.stripes) = 2
    /\ sampleState.sampleRows # SubSeq(FileRowsFrom(disk, 1), 1, 2)
    /\ sampleState.sampleRows[2] = FileRowsFrom(disk, 1)[3]

====
